---- MODULE Spec2Model ----
(***************************************************************************)
(* Photo-Watermark-Mk-II: the renderer component App (src/unnamed/part_000 *)
(* lines 137-830) as a state machine.                                      *)
(*                                                                         *)
(* React state (useState) and refs (useRef) are the variables.  Every      *)
(* event handler and every settlement of a host call is one action; the    *)
(* state updates a handler makes are batched into one commit.  The         *)
(* effects (useEffect) of a commit run in the action RunEffects; React     *)
(* flushes the effects of a commit before it processes the next update,    *)
(* so every other action waits for dirty = {}.                             *)
(*                                                                         *)
(* Numbers in [0,1] are kept in tenths (0.5 is 5).  A string the code      *)
(* trims is a sequence of characters.  An optional number is <<>> when     *)
(* it is undefined and <<v>> when it is v.                                 *)
(***************************************************************************)
EXTENDS Integers, Sequences, FiniteSets, TLC

\* ------------------------------------------------------------ bounds
MaxTemplates == 3      \* templates the host ever stores
MaxCalls == 1          \* saveTemplate / deleteTemplate calls in flight
MaxEvents == 5         \* user events (changes, clicks) in one session
MaxFiles == 2          \* files queued, and paths being resolved, in one session
MaxExportCalls == 2    \* runBatchExport calls in flight
MaxProgress == 1       \* progress events sent and not yet delivered
MaxPreviewCalls == 2   \* applyWatermark calls in flight at one time
MessageTickMs == 1000  \* the same for the clock of the message timeout
TickMs == 200          \* the time that passes in one step of the clock, in ms

\* --------------------------------------------------------- constants
Null == 0              \* string | null: no template id
Center == [x |-> 5, y |-> 5]
DebounceDelay == 400   \* the delay of line 271, in ms
MessageDelay == 3000   \* the delay of line 282, in ms

VARIABLES
  fileList,                \* useState, line 138
  selectedImage,           \* useState, line 139
  watermarkOptions,        \* useState, line 141
  optionsFrom,             \* id of the template of `templates` whose options
                           \* object IS the live options object, or Null
  latestCustomPosition,    \* useRef, line 152
  templates,               \* useState, line 168
  selectedTemplateId,      \* useState, line 169
  appliedTemplateId,       \* useState, line 170
  newTemplateName,         \* useState, line 171
  templateMessage,         \* useState, line 172
  isConfigReady,           \* useState, line 173
  applyingTemplateRef,     \* useRef, line 174
  dirty,                   \* the effect dependencies the last commit changed
  configCall,              \* the getConfigState call of loadConfig
  templateCalls,           \* saveTemplate / deleteTemplate calls in flight
  host,                    \* the host's store of templates and last-used state
  exportOptions,           \* useState, line 155
  exportStatus,            \* useState, line 162
  exportCalls,             \* runBatchExport calls in flight, with their payloads
  progress,                \* export:progress events sent and not yet delivered
  addCalls,                \* processFiles calls awaiting their Promise.all
  dirDialog,               \* a selectExportDirectory call is in flight
  lastExport,              \* history: the payload size and result of the last
                           \* settled runBatchExport call
  overlayPosition,         \* useState, line 153
  isDragging,              \* useState, line 154
  previewImage,            \* useState, line 140: NoPreview for null
  previewCalls,            \* applyWatermark calls in flight, oldest first
  timer,                   \* the pending timeout of the persistence effect:
                           \* what its callback will send and the time left
  updateCalls,             \* history: the updateLastUsedOptions calls issued
  messageTimer,            \* the pending timeout of the message effect: the
                           \* time left, line 282
  events,                  \* the number of user events handled so far
  lastOp                   \* history: the last handler or settlement that ran

exportVars == <<exportOptions, exportStatus, exportCalls, progress, addCalls,
                dirDialog, lastExport>>
templateVars == <<templates, selectedTemplateId, appliedTemplateId, newTemplateName,
                  templateMessage, isConfigReady, applyingTemplateRef,
                  configCall, templateCalls, host>>
optionVars == <<watermarkOptions, optionsFrom, latestCustomPosition>>
syncVars == <<timer, updateCalls, messageTimer>>
dragVars == <<overlayPosition, isDragging, previewImage, previewCalls>>

vars == <<fileList, selectedImage, optionVars, templateVars, exportVars, syncVars,
          dragVars, dirty, events, lastOp>>

\* ------------------------------------------------------ pure helpers
Undefined == <<>>
Some(v) == <<v>>

Min2(a, b) == IF a < b THEN a ELSE b
Max2(a, b) == IF a > b THEN a ELSE b

\* clamp(value, min = 0, max = 1), in tenths
clamp(value) == Min2(Max2(value, 0), 10)

PresetPositions == {"north", "northeast", "east", "southeast", "south",
                    "southwest", "west", "northwest", "center"}

presetPositionMap(p) ==
  CASE p = "north"     -> [x |-> 5, y |-> 1]
    [] p = "northeast" -> [x |-> 9, y |-> 1]
    [] p = "east"      -> [x |-> 9, y |-> 5]
    [] p = "southeast" -> [x |-> 9, y |-> 9]
    [] p = "south"     -> [x |-> 5, y |-> 9]
    [] p = "southwest" -> [x |-> 1, y |-> 9]
    [] p = "west"      -> [x |-> 1, y |-> 5]
    [] p = "northwest" -> [x |-> 1, y |-> 1]
    [] p = "center"    -> [x |-> 5, y |-> 5]
    [] OTHER           -> Center

\* String.prototype.trim on a sequence of characters
RECURSIVE TrimLeft(_)
TrimLeft(s) == IF s # <<>> /\ Head(s) = " " THEN TrimLeft(Tail(s)) ELSE s
RECURSIVE TrimRight(_)
TrimRight(s) ==
  IF s # <<>> /\ s[Len(s)] = " " THEN TrimRight(SubSeq(s, 1, Len(s) - 1)) ELSE s
\* No trim at all: a mutant of Trim.
TrimNothing(s) == s
\* trim that leaves the trailing blanks: a mutant of Trim.
TrimStartOnly(s) == TrimLeft(s)
Trim(s) == TrimRight(TrimLeft(s))

\* [...items].sort((a, b) => time(b.createdAt) - time(a.createdAt)): stable,
\* createdAt descending
RECURSIVE InsertByTime(_, _)
InsertByTime(t, sorted) ==
  IF sorted = <<>> THEN <<t>>
  ELSE IF Head(sorted).createdAt >= t.createdAt
       THEN <<Head(sorted)>> \o InsertByTime(t, Tail(sorted))
       ELSE <<t>> \o sorted
\* The list as the host returned it: a mutant of sortTemplatesByTime.
sortTemplatesKeepOrder(items) == items
RECURSIVE sortTemplatesByTime(_)
sortTemplatesByTime(items) ==
  IF items = <<>> THEN <<>>
  ELSE LET n == Len(items)
       IN InsertByTime(items[n], sortTemplatesByTime(SubSeq(items, 1, n - 1)))

Ids(list) == {list[i].id : i \in 1..Len(list)}
\* templates.find((item) => item.id === id), for an id that is in the list
Find(list, id) == list[CHOOSE i \in 1..Len(list) :
                         list[i].id = id /\ \A j \in 1..(i - 1) : list[j].id # id]
FirstIdOrNull(list) == IF list = <<>> THEN Null ELSE list[1].id

\* -------------------------------------------------------- input sets
DefaultOptions ==
  [text |-> "Hello World", size |-> 50, color |-> "#ffffff", opacity |-> 100,
   mode |-> "preset", position |-> "center",
   offsetX |-> Some(5), offsetY |-> Some(5)]

TextChoices == {"Hello World", "draft"}
SizeChoices == {50, 120}
ColorChoices == {"#ffffff", "#ff0000"}
OpacityChoices == {100, 30}
PositionChoices == {"center", "southeast", "custom"}
NameChoices == {<<" ">>, <<" ", "a">>}

\* What the host's store can hold when the application starts.
StoredOptions ==
  [DefaultOptions EXCEPT !.text = "draft", !.position = "southeast",
                         !.offsetX = Undefined, !.offsetY = Undefined]
StoredTemplate ==
  [id |-> 1, name |-> <<"a">>, createdAt |-> 1, options |-> StoredOptions]
GoneId == MaxTemplates + 1   \* an id the store holds no template for
InitialHosts ==
  { [templates |-> <<>>, lastUsedOptions |-> DefaultOptions,
     lastUsedTemplateId |-> Null, nextId |-> 1],
    [templates |-> <<>>, lastUsedOptions |-> StoredOptions,
     lastUsedTemplateId |-> GoneId, nextId |-> 1],
    [templates |-> <<StoredTemplate>>, lastUsedOptions |-> StoredOptions,
     lastUsedTemplateId |-> 1, nextId |-> 2],
    [templates |-> <<StoredTemplate>>, lastUsedOptions |-> DefaultOptions,
     lastUsedTemplateId |-> Null, nextId |-> 2] }

\* lines 155-161; a string the code trims is a sequence of characters
DefaultExportOptions ==
  [outputDir |-> "", namingMode |-> "prefix", prefix |-> <<"w", "m", "_">>,
   suffix |-> <<"_", "w", "a", "t", "e", "r", "m", "a", "r", "k", "e", "d">>,
   format |-> "source"]

PathLists == {<<>>, <<"a.jpg">>, <<"b.png", "a.jpg">>}
DirectoryChoices == {"", "/out"}
NamingChoices == {"original", "prefix", "suffix"}
FormatChoices == {"source", "png"}
PrefixChoices == {<<"w", "m", "_">>, <<" ", "x", " ">>}
SuffixChoices == {<<"_", "w", "a", "t", "e", "r", "m", "a", "r", "k", "e", "d">>,
                  <<"s", " ">>}

NoImage == [path |-> "none", name |-> <<>>, thumbnail |-> <<>>]
NoMessage == [type |-> "none", text |-> "none"]
\* What applyWatermark is called with, line 239, and the image data it
\* answers: the render of that image under those options.
PreviewRequest(image, opts) == [path |-> image.path, options |-> Some(opts)]
NoPreview == [path |-> "none", options |-> Undefined]
Message(type, text) == [type |-> type, text |-> text]

Op(name, id) == [op |-> name, id |-> id, arg |-> "none"]
OpArg(name, arg) == [op |-> name, id |-> Null, arg |-> arg]

\* -------------------------------------------------------------- Init
InitApp ==
  /\ fileList = <<>>
  /\ selectedImage = NoImage
  /\ watermarkOptions = DefaultOptions
  /\ optionsFrom = Null
  /\ latestCustomPosition = Center
  /\ templates = <<>>
  /\ selectedTemplateId = Null
  /\ appliedTemplateId = Null
  /\ newTemplateName = <<>>
  /\ templateMessage = NoMessage
  /\ isConfigReady = FALSE
  /\ applyingTemplateRef = FALSE
  /\ dirty = {}
  /\ configCall = "pending"
  /\ templateCalls = <<>>
  /\ exportOptions = DefaultExportOptions
  /\ exportStatus = [state |-> "idle", total |-> 0, processed |-> 0,
                     message |-> Undefined, summary |-> Undefined]
  /\ exportCalls = <<>>
  /\ progress = {}
  /\ addCalls = <<>>
  /\ dirDialog = FALSE
  /\ lastExport = [sent |-> 0, result |-> Undefined]
  /\ timer = Undefined
  /\ updateCalls = 0
  /\ messageTimer = Undefined
  /\ events = 0
  /\ lastOp = Op("mount", Null)
  /\ overlayPosition = Center
  /\ isDragging = FALSE
  /\ previewImage = NoPreview
  /\ previewCalls = <<>>

Init == InitApp /\ host \in InitialHosts

\* The calls in flight are bounded: an event waits for a response when
\* MaxPreviewCalls calls are in flight.
PreviewRoom == Len(previewCalls) < MaxPreviewCalls

\* ------------------------------------------------------------ events
\* A user event (a change, a click) is handled once the effects of the last
\* commit have run.
UserEvent ==
  /\ dirty = {}
  /\ PreviewRoom
  /\ events < MaxEvents
  /\ events' = events + 1

\* The settlement of a host call, likewise.
HostEvent ==
  /\ dirty = {}
  /\ PreviewRoom
  /\ UNCHANGED events

\* ----------------------------------------------------------- effects
\* The position effect without its first branch, lines 206-211: a mutant of
\* ResolvePosition.
ResolvePositionIgnoresImage(image, opts) ==
  IF opts.mode = "custom" /\ opts.offsetX # Undefined /\ opts.offsetY # Undefined
  THEN [x |-> clamp(opts.offsetX[1]), y |-> clamp(opts.offsetY[1])]
  ELSE presetPositionMap(opts.position)

\* The position effect, lines 205-228: the resolved overlay position.
ResolvePosition(image, opts) ==
  IF image = NoImage THEN Center
  ELSE IF opts.mode = "custom" /\ opts.offsetX # Undefined /\ opts.offsetY # Undefined
       THEN [x |-> clamp(opts.offsetX[1]), y |-> clamp(opts.offsetY[1])]
       ELSE presetPositionMap(opts.position)

\* The preview effect, lines 230-247: whether it calls applyWatermark.
PreviewEffect(image, opts) ==
  /\ image # NoImage
  /\ ~(opts.mode = "custom" /\ (opts.offsetX = Undefined \/ opts.offsetY = Undefined))

\* The invalidation effect without its one-shot flag: every change of the
\* options or of the applied id clears the applied id.
InvalidationEffectNoFlag(ready, flag, applied) ==
  IF ~ready THEN [flag |-> flag, applied |-> applied]
  ELSE IF applied # Null THEN [flag |-> FALSE, applied |-> Null]
  ELSE [flag |-> FALSE, applied |-> applied]

\* The applied-template invalidation effect, lines 249-260, as the values it
\* leaves in applyingTemplateRef.current and appliedTemplateId.
InvalidationEffect(ready, flag, applied) ==
  IF ~ready THEN [flag |-> flag, applied |-> applied]
  ELSE IF flag THEN [flag |-> FALSE, applied |-> applied]
  ELSE IF applied # Null THEN [flag |-> flag, applied |-> Null]
  ELSE [flag |-> flag, applied |-> applied]

\* The persistence effect scheduling a timeout before the config is ready: a
\* mutant of DebounceEffect.
DebounceEffectNoReadyTest(pending, ready, options, applied) ==
  Some([options |-> options, templateId |-> applied, remaining |-> DebounceDelay])

\* The persistence effect as a throttle, a pending timeout is left to run: a
\* mutant of DebounceEffect.
DebounceEffectThrottle(pending, ready, options, applied) ==
  IF ~ready THEN Undefined
  ELSE IF pending # Undefined THEN pending
  ELSE Some([options |-> options, templateId |-> applied, remaining |-> DebounceDelay])

\* The debounced persistence effect, lines 262-276, as the timeout it leaves
\* pending: the cleanup of its last run (lines 273-275) clears the timeout
\* `pending` of that run, then the effect schedules a new one, or returns.
DebounceEffect(pending, ready, options, applied) ==
  IF ~ready THEN Undefined
  ELSE Some([options |-> options, templateId |-> applied, remaining |-> DebounceDelay])

\* The effects of one commit, in the order the component declares them.  An
\* effect runs when one of its dependencies changed in that commit.  A state
\* update made by an effect is a new commit, whose effects run next.
RunEffects ==
  /\ dirty # {}
  /\ latestCustomPosition' =
       IF dirty \cap {"selectedImage", "watermarkOptions"} # {}
       THEN ResolvePosition(selectedImage, watermarkOptions)
       ELSE latestCustomPosition
  /\ overlayPosition' =
       IF dirty \cap {"selectedImage", "watermarkOptions"} # {}
       THEN ResolvePosition(selectedImage, watermarkOptions)
       ELSE overlayPosition
  /\ previewCalls' =
       IF /\ dirty \cap {"selectedImage", "watermarkOptions"} # {}
          /\ PreviewEffect(selectedImage, watermarkOptions)
       THEN Append(previewCalls, PreviewRequest(selectedImage, watermarkOptions))
       ELSE previewCalls
  /\ LET r == IF dirty \cap {"watermarkOptions", "appliedTemplateId", "isConfigReady"} # {}
              THEN InvalidationEffect(isConfigReady, applyingTemplateRef, appliedTemplateId)
              ELSE [flag |-> applyingTemplateRef, applied |-> appliedTemplateId]
     IN /\ applyingTemplateRef' = r.flag
        /\ appliedTemplateId' = r.applied
        /\ dirty' = IF r.applied # appliedTemplateId THEN {"appliedTemplateId"} ELSE {}
  /\ timer' =
       IF dirty \cap {"watermarkOptions", "appliedTemplateId", "isConfigReady"} # {}
       THEN DebounceEffect(timer, isConfigReady, watermarkOptions, appliedTemplateId)
       ELSE timer
  /\ UNCHANGED <<fileList, selectedImage, watermarkOptions, optionsFrom, templates,
                 selectedTemplateId, newTemplateName, templateMessage,
                 isConfigReady, configCall, templateCalls, host, lastOp, events,
                 exportVars, updateCalls, messageTimer, isDragging, previewImage>>

\* Time passes while a timeout is pending.
Tick ==
  /\ timer # Undefined
  /\ timer[1].remaining > 0
  /\ timer' = Some([timer[1] EXCEPT !.remaining = Max2(@ - TickMs, 0)])
  /\ UNCHANGED <<fileList, selectedImage, optionVars, templateVars, exportVars,
                 updateCalls, messageTimer, dragVars, dirty, events, lastOp>>

\* The host's updateLastUsedOptions: it stores the options and the id.
HostUpdateLastUsed(h, payload) ==
  [h EXCEPT !.lastUsedOptions = payload.options,
            !.lastUsedTemplateId = payload.templateId]

\* The timeout callback of lines 266-271, when the delay has passed
updateLastUsedOptions ==
  /\ HostEvent
  /\ timer # Undefined
  /\ timer[1].remaining = 0
  /\ host' = HostUpdateLastUsed(host, [options |-> timer[1].options,
                                       templateId |-> timer[1].templateId])
  /\ updateCalls' = updateCalls + 1
  /\ timer' = Undefined
  /\ lastOp' = Op("updateLastUsedOptions", Null)
  /\ UNCHANGED <<fileList, selectedImage, optionVars, templates, selectedTemplateId,
                 appliedTemplateId, newTemplateName, templateMessage,
                 isConfigReady, applyingTemplateRef, configCall, templateCalls,
                 exportVars, messageTimer, dragVars, dirty>>

\* --------------------------------------------------- template messages
\* The message effect never clearing a pending timeout: a mutant of
\* MessageEffect.
MessageEffectNoRestart(pending, message) ==
  IF message = NoMessage THEN Undefined
  ELSE IF pending # Undefined THEN pending
  ELSE Some([remaining |-> MessageDelay])

\* The message effect, lines 278-284, as the timeout it leaves pending: the
\* cleanup of its last run clears the timeout `pending` of that run, then the
\* effect schedules a new one, or returns for no message.
MessageEffect(pending, message) ==
  IF message = NoMessage THEN Undefined
  ELSE Some([remaining |-> MessageDelay])

\* setTemplateMessage with a new message object, and the message effect of
\* that commit.  The effect reads and writes nothing but its own timeout, so
\* it is taken in the step of the commit.
SetMessage(message) ==
  /\ templateMessage' = message
  /\ messageTimer' = MessageEffect(messageTimer, message)
KeepMessage == UNCHANGED <<templateMessage, messageTimer>>

\* Time passes while the timeout of a message is pending.
TickMessage ==
  /\ messageTimer # Undefined
  /\ messageTimer[1].remaining > 0
  /\ messageTimer' = Some([remaining |-> Max2(messageTimer[1].remaining - MessageTickMs, 0)])
  /\ UNCHANGED <<fileList, selectedImage, optionVars, templateVars, exportVars,
                 timer, updateCalls, dragVars, dirty, events, lastOp>>

\* The timeout callback of line 282, when the delay has passed, and the run
\* of the message effect for the null it sets.
clearTemplateMessage ==
  /\ HostEvent
  /\ messageTimer # Undefined
  /\ messageTimer[1].remaining = 0
  /\ SetMessage(NoMessage)
  /\ lastOp' = Op("messageExpired", Null)
  /\ UNCHANGED <<fileList, selectedImage, optionVars, templates, selectedTemplateId,
                 appliedTemplateId, newTemplateName, isConfigReady,
                 applyingTemplateRef, configCall, templateCalls, host,
                 exportVars, timer, updateCalls, dragVars, dirty>>

\* The dependencies a commit changes: a useState setter given the value the
\* state already holds (Object.is) changes nothing.
Changed(name, old, new) == IF old # new THEN {name} ELSE {}

\* -------------------------------------------- the initial config load
\* loadConfig, lines 179-200, when getConfigState resolves
loadConfigResolved ==
  /\ HostEvent
  /\ configCall = "pending"
  /\ LET config == [templates |-> host.templates,
                    lastUsedOptions |-> host.lastUsedOptions,
                    lastUsedTemplateId |-> host.lastUsedTemplateId]
         sortedTemplates == sortTemplatesByTime(config.templates)
         hasTemplate == /\ config.lastUsedTemplateId # Null
                        /\ config.lastUsedTemplateId \in Ids(sortedTemplates)
         initialTemplateId == IF hasTemplate THEN config.lastUsedTemplateId
                              ELSE FirstIdOrNull(sortedTemplates)
         applied == IF hasTemplate THEN config.lastUsedTemplateId ELSE Null
     IN /\ templates' = sortedTemplates
        /\ selectedTemplateId' = initialTemplateId
        /\ appliedTemplateId' = applied
        /\ applyingTemplateRef' = TRUE
        /\ watermarkOptions' = config.lastUsedOptions
        /\ optionsFrom' = Null
        /\ dirty' = {"watermarkOptions", "isConfigReady"}
                      \cup Changed("appliedTemplateId", appliedTemplateId, applied)
  /\ isConfigReady' = TRUE
  /\ configCall' = "done"
  /\ lastOp' = Op("loadConfigResolved", Null)
  /\ UNCHANGED <<fileList, selectedImage, latestCustomPosition, newTemplateName,
                 templateMessage, templateCalls, host,
                 exportVars, syncVars, dragVars>>

\* loadConfig without its finally block: a mutant of loadConfigRejected.
loadConfigRejectedNoFinally ==
  /\ HostEvent
  /\ configCall = "pending"
  /\ SetMessage(Message("error", "load failed"))
  /\ templates' = <<>>
  /\ selectedTemplateId' = Null
  /\ appliedTemplateId' = Null
  /\ dirty' = Changed("appliedTemplateId", appliedTemplateId, Null)
  /\ configCall' = "done"
  /\ lastOp' = Op("loadConfigRejected", Null)
  /\ UNCHANGED <<fileList, selectedImage, watermarkOptions, optionsFrom,
                 latestCustomPosition, newTemplateName, applyingTemplateRef,
                 isConfigReady, templateCalls, host,
                 exportVars, timer, updateCalls, dragVars>>

\* loadConfig, lines 191-199, when getConfigState rejects
loadConfigRejected ==
  /\ HostEvent
  /\ configCall = "pending"
  /\ SetMessage(Message("error", "load failed"))
  /\ templates' = <<>>
  /\ selectedTemplateId' = Null
  /\ appliedTemplateId' = Null
  /\ isConfigReady' = TRUE
  /\ dirty' = {"isConfigReady"} \cup Changed("appliedTemplateId", appliedTemplateId, Null)
  /\ configCall' = "done"
  /\ lastOp' = Op("loadConfigRejected", Null)
  /\ UNCHANGED <<fileList, selectedImage, watermarkOptions, optionsFrom,
                 latestCustomPosition, newTemplateName, applyingTemplateRef,
                 templateCalls, host,
                 exportVars, timer, updateCalls, dragVars>>

\* ------------------------------------------------ direct option changes
\* setWatermarkOptions with a new object: every direct edit, lines 657-694
\* and 367-375, 415-421.  The other state is left alone.
SetOptionsAs(opts, op) ==
  /\ UserEvent
  /\ watermarkOptions' = opts
  /\ optionsFrom' = Null
  /\ dirty' = {"watermarkOptions"}
  /\ lastOp' = op
  /\ UNCHANGED <<fileList, selectedImage, latestCustomPosition, templates,
                 selectedTemplateId, appliedTemplateId, newTemplateName,
                 templateMessage, isConfigReady, applyingTemplateRef,
                 configCall, templateCalls, host,
                 exportVars, syncVars, overlayPosition, previewImage, previewCalls>>
SetOptionsOnly(opts, op) == SetOptionsAs(opts, Op(op, Null))
SetOptions(opts, op) == SetOptionsOnly(opts, op) /\ UNCHANGED isDragging

\* line 662
EditText ==
  \E v \in TextChoices \ {watermarkOptions.text} :
    SetOptions([watermarkOptions EXCEPT !.text = v], "edit")
\* line 672
EditSize ==
  \E v \in SizeChoices \ {watermarkOptions.size} :
    SetOptions([watermarkOptions EXCEPT !.size = v], "edit")
\* line 681
EditColor ==
  \E v \in ColorChoices \ {watermarkOptions.color} :
    SetOptions([watermarkOptions EXCEPT !.color = v], "edit")
\* line 691
EditOpacity ==
  \E v \in OpacityChoices \ {watermarkOptions.opacity} :
    SetOptions([watermarkOptions EXCEPT !.opacity = v], "edit")

\* finalizeCustomPosition committing the center whatever the candidate is: a
\* mutant of CustomOptions.
CustomOptionsCenter(prev, candidate) ==
  [prev EXCEPT !.mode = "custom", !.offsetX = Some(Center.x), !.offsetY = Some(Center.y)]

\* The options finalizeCustomPosition sets, lines 369-374
CustomOptions(prev, candidate) ==
  [prev EXCEPT !.mode = "custom",
               !.offsetX = Some(candidate.x),
               !.offsetY = Some(candidate.y)]

\* finalizeCustomPosition, lines 367-375
finalizeCustomPosition(op) ==
  SetOptions(CustomOptions(watermarkOptions, latestCustomPosition), op)

\* line 591: the value the position selector shows
positionSelectValue ==
  IF watermarkOptions.mode = "custom" THEN "custom" ELSE watermarkOptions.position

\* Lines 415-421 keeping the offsets: a mutant of PresetOptions.
PresetOptionsKeepsOffsets(prev, value) ==
  [prev EXCEPT !.mode = "preset", !.position = value]

\* The options handlePositionChange sets for a preset, lines 415-421
PresetOptions(prev, value) ==
  [prev EXCEPT !.mode = "preset", !.position = value,
               !.offsetX = Undefined, !.offsetY = Undefined]

\* handlePositionChange, lines 407-422, for one value of the selector
handlePositionChangeTo(value) ==
  IF value = "custom"
  THEN finalizeCustomPosition("editCustom")
  ELSE /\ SetOptionsAs(PresetOptions(watermarkOptions, value),
                       OpArg("editPreset", value))
       /\ UNCHANGED isDragging

\* handlePositionChange, lines 407-422: the selector's change event
handlePositionChange ==
  \E value \in PositionChoices \ {positionSelectValue} :
    handlePositionChangeTo(value)

\* The same with every option of the selector, lines 698-707
handlePositionChangeAny ==
  \E value \in (PresetPositions \cup {"custom"}) \ {positionSelectValue} :
    handlePositionChangeTo(value)

\* ---------------------------------------------------------- templates
\* line 600
disableTemplateSelection == ~isConfigReady \/ templates = <<>>

\* handleTemplateNameChange, lines 429-431 (the input is disabled until the
\* config is ready, line 719)
handleTemplateNameChange ==
  /\ UserEvent
  /\ isConfigReady
  /\ \E value \in NameChoices \ {newTemplateName} : newTemplateName' = value
  /\ lastOp' = Op("nameChange", Null)
  /\ UNCHANGED <<fileList, selectedImage, watermarkOptions, optionsFrom,
                 latestCustomPosition, templates, selectedTemplateId,
                 appliedTemplateId, templateMessage, isConfigReady,
                 applyingTemplateRef, dirty, configCall, templateCalls, host,
                 exportVars, syncVars, dragVars>>

\* handleTemplateSelectChange, lines 433-436: the picker offers the ids of
\* `templates` (lines 735-739) and is disabled by disableTemplateSelection
handleTemplateSelectChange ==
  /\ UserEvent
  /\ ~disableTemplateSelection
  /\ \E value \in Ids(templates) \ {selectedTemplateId} : selectedTemplateId' = value
  /\ lastOp' = Op("selectChange", Null)
  /\ UNCHANGED <<fileList, selectedImage, watermarkOptions, optionsFrom,
                 latestCustomPosition, templates, appliedTemplateId,
                 newTemplateName, templateMessage, isConfigReady,
                 applyingTemplateRef, dirty, configCall, templateCalls, host,
                 exportVars, syncVars, dragVars>>

\* handleSaveTemplate, lines 438-445, up to the call of saveTemplate (the
\* button is disabled until the config is ready, line 721)
SavesInFlight == Cardinality({i \in 1..Len(templateCalls) : templateCalls[i].kind = "save"})
handleSaveTemplate ==
  /\ UserEvent
  /\ isConfigReady
  /\ LET trimmed == Trim(newTemplateName)
     IN IF trimmed = <<>>
        THEN /\ SetMessage(Message("error", "name required"))
             /\ lastOp' = Op("saveInvalid", Null)
             /\ UNCHANGED templateCalls
        ELSE /\ Len(templateCalls) < MaxCalls
             /\ host.nextId + SavesInFlight <= MaxTemplates
             /\ templateCalls' = Append(templateCalls,
                  [kind |-> "save", name |-> trimmed, options |-> Some(watermarkOptions),
                   selected |-> Null, applied |-> Null])
             /\ lastOp' = Op("saveCalled", Null)
             /\ KeepMessage
  /\ UNCHANGED <<fileList, selectedImage, watermarkOptions, optionsFrom,
                 latestCustomPosition, templates, selectedTemplateId,
                 appliedTemplateId, newTemplateName, isConfigReady,
                 applyingTemplateRef, dirty, configCall, host,
                 exportVars, timer, updateCalls, dragVars>>

\* The host's saveTemplate: it stores a new template under a new id and
\* answers with its templates and that id.
HostSave(h, call) ==
  LET t == [id |-> h.nextId, name |-> call.name, createdAt |-> h.nextId,
            options |-> call.options[1]]
  IN [h EXCEPT !.templates = Append(h.templates, t), !.nextId = h.nextId + 1]

Without(list, i) == SubSeq(list, 1, i - 1) \o SubSeq(list, i + 1, Len(list))

\* handleSaveTemplate, lines 445-451, when saveTemplate resolves
saveTemplateResolved ==
  /\ HostEvent
  /\ \E i \in 1..Len(templateCalls) :
       /\ templateCalls[i].kind = "save"
       /\ host' = HostSave(host, templateCalls[i])
       /\ LET result == [templates |-> host'.templates, templateId |-> host.nextId]
              sorted == sortTemplatesByTime(result.templates)
          IN /\ templates' = sorted
             /\ selectedTemplateId' = result.templateId
             /\ appliedTemplateId' = result.templateId
             /\ dirty' = Changed("appliedTemplateId", appliedTemplateId, result.templateId)
             /\ lastOp' = Op("saveResolved", result.templateId)
       /\ templateCalls' = Without(templateCalls, i)
  /\ optionsFrom' = Null
  /\ newTemplateName' = <<>>
  /\ SetMessage(Message("success", "saved"))
  /\ UNCHANGED <<fileList, selectedImage, watermarkOptions, latestCustomPosition,
                 isConfigReady, applyingTemplateRef, configCall,
                 exportVars, timer, updateCalls, dragVars>>

\* The catch blocks clearing the pending name as the success path of the
\* save does: a mutant of templateCallRejected.
templateCallRejectedClearsName ==
  /\ HostEvent
  /\ \E i \in 1..Len(templateCalls) :
       /\ templateCalls' = Without(templateCalls, i)
       /\ lastOp' = Op(IF templateCalls[i].kind = "save" THEN "saveRejected"
                       ELSE "deleteRejected", Null)
  /\ SetMessage(Message("error", "host error"))
  /\ newTemplateName' = <<>>
  /\ UNCHANGED <<fileList, selectedImage, watermarkOptions, optionsFrom,
                 latestCustomPosition, templates, selectedTemplateId,
                 appliedTemplateId, isConfigReady,
                 applyingTemplateRef, dirty, configCall, host,
                 exportVars, timer, updateCalls, dragVars>>

\* handleSaveTemplate, lines 452-455, and handleDeleteTemplate, lines 500-503,
\* when the host call rejects
templateCallRejected ==
  /\ HostEvent
  /\ \E i \in 1..Len(templateCalls) :
       /\ templateCalls' = Without(templateCalls, i)
       /\ lastOp' = Op(IF templateCalls[i].kind = "save" THEN "saveRejected"
                       ELSE "deleteRejected", Null)
  /\ SetMessage(Message("error", "host error"))
  /\ UNCHANGED <<fileList, selectedImage, watermarkOptions, optionsFrom,
                 latestCustomPosition, templates, selectedTemplateId,
                 appliedTemplateId, newTemplateName, isConfigReady,
                 applyingTemplateRef, dirty, configCall, host,
                 exportVars, timer, updateCalls, dragVars>>

\* handleLoadTemplate, lines 458-473 (the button is disabled by
\* disableTemplateSelection || !selectedTemplateId, line 743)
handleLoadTemplate ==
  /\ UserEvent
  /\ ~disableTemplateSelection
  /\ selectedTemplateId # Null
  /\ IF selectedTemplateId \notin Ids(templates)
     THEN /\ SetMessage(Message("error", "not found"))
          /\ lastOp' = Op("loadMissing", Null)
          /\ UNCHANGED <<watermarkOptions, optionsFrom, appliedTemplateId,
                         applyingTemplateRef, dirty>>
     ELSE LET template == Find(templates, selectedTemplateId)
          IN /\ applyingTemplateRef' = TRUE
             /\ watermarkOptions' = template.options
             /\ optionsFrom' = template.id
             /\ appliedTemplateId' = template.id
             /\ SetMessage(Message("success", "loaded"))
             /\ dirty' = Changed("watermarkOptions", optionsFrom, template.id)
                           \cup Changed("appliedTemplateId", appliedTemplateId, template.id)
             /\ lastOp' = Op("load", template.id)
  /\ UNCHANGED <<fileList, selectedImage, latestCustomPosition, templates,
                 selectedTemplateId, newTemplateName, isConfigReady,
                 configCall, templateCalls, host,
                 exportVars, timer, updateCalls, dragVars>>

\* handleDeleteTemplate calling the host whatever is selected: a mutant of
\* handleDeleteTemplate.
handleDeleteTemplateNoTest ==
  /\ UserEvent
  /\ Len(templateCalls) < MaxCalls
  /\ templateCalls' = Append(templateCalls,
       [kind |-> "delete", name |-> <<>>, options |-> Undefined,
        selected |-> selectedTemplateId, applied |-> appliedTemplateId])
  /\ lastOp' = Op("deleteCalled", selectedTemplateId)
  /\ UNCHANGED <<fileList, selectedImage, watermarkOptions, optionsFrom,
                 latestCustomPosition, templates, selectedTemplateId,
                 appliedTemplateId, newTemplateName, templateMessage,
                 isConfigReady, applyingTemplateRef, dirty, configCall, host,
                 exportVars, syncVars, dragVars>>

\* handleDeleteTemplate, lines 475-481, up to the call of deleteTemplate
handleDeleteTemplate ==
  /\ UserEvent
  /\ IF selectedTemplateId = Null
     THEN /\ SetMessage(Message("error", "select a template"))
          /\ lastOp' = Op("deleteRefused", Null)
          /\ UNCHANGED templateCalls
     ELSE /\ Len(templateCalls) < MaxCalls
          /\ templateCalls' = Append(templateCalls,
               [kind |-> "delete", name |-> <<>>, options |-> Undefined,
                selected |-> selectedTemplateId, applied |-> appliedTemplateId])
          /\ lastOp' = Op("deleteCalled", selectedTemplateId)
          /\ KeepMessage
  /\ UNCHANGED <<fileList, selectedImage, watermarkOptions, optionsFrom,
                 latestCustomPosition, templates, selectedTemplateId,
                 appliedTemplateId, newTemplateName,
                 isConfigReady, applyingTemplateRef, dirty, configCall, host,
                 exportVars, timer, updateCalls, dragVars>>

\* A click on the delete button, lines 746-748: disabled by
\* disableTemplateSelection || !selectedTemplateId
DeleteButtonClick ==
  /\ ~disableTemplateSelection
  /\ selectedTemplateId # Null
  /\ handleDeleteTemplate

\* The host's deleteTemplate: it drops the template and forgets it as the
\* last used one.
RECURSIVE Remove(_, _)
Remove(list, id) ==
  IF list = <<>> THEN <<>>
  ELSE IF Head(list).id = id THEN Remove(Tail(list), id)
       ELSE <<Head(list)>> \o Remove(Tail(list), id)
HostDelete(h, id) ==
  [h EXCEPT !.templates = Remove(h.templates, id),
            !.lastUsedTemplateId = IF h.lastUsedTemplateId = id THEN Null
                                   ELSE h.lastUsedTemplateId]

\* Lines 486-489 without the test of the last used id: a mutant of
\* DeleteCandidate.
DeleteCandidateFirst(lastUsedTemplateId, remainingTemplates) ==
  FirstIdOrNull(remainingTemplates)

\* Lines 486-489 taking the last used id without looking for it in the
\* remaining templates: a mutant of DeleteCandidate.
DeleteCandidateNoLookup(lastUsedTemplateId, remainingTemplates) ==
  IF lastUsedTemplateId # Null THEN lastUsedTemplateId
  ELSE FirstIdOrNull(remainingTemplates)

\* candidateId, lines 486-489
DeleteCandidate(lastUsedTemplateId, remainingTemplates) ==
  IF lastUsedTemplateId # Null /\ lastUsedTemplateId \in Ids(remainingTemplates)
  THEN lastUsedTemplateId
  ELSE FirstIdOrNull(remainingTemplates)

\* The argument of setAppliedTemplateId, lines 492-496
DeleteApplied(lastUsedTemplateId, remainingTemplates) ==
  IF lastUsedTemplateId # Null /\ lastUsedTemplateId \in Ids(remainingTemplates)
  THEN lastUsedTemplateId
  ELSE Null

\* Lines 491-497 without the test of line 491: a mutant of
\* AppliedAfterDelete.
AppliedAfterDeleteAlways(call, current, lastUsedTemplateId, remainingTemplates) ==
  DeleteApplied(lastUsedTemplateId, remainingTemplates)

\* appliedTemplateId after lines 491-497: the test of line 491 reads the
\* appliedTemplateId and selectedTemplateId of the render the handler was
\* called in, which the call carries
AppliedAfterDelete(call, current, lastUsedTemplateId, remainingTemplates) ==
  IF call.applied = call.selected
  THEN DeleteApplied(lastUsedTemplateId, remainingTemplates)
  ELSE current

\* handleDeleteTemplate, lines 481-499, when deleteTemplate resolves
deleteTemplateResolved ==
  /\ HostEvent
  /\ \E i \in 1..Len(templateCalls) :
       LET call == templateCalls[i]
       IN /\ call.kind = "delete"
          /\ host' = HostDelete(host, call.selected)
          /\ LET result == [templates |-> host'.templates,
                            lastUsedTemplateId |-> host'.lastUsedTemplateId]
                 sorted == sortTemplatesByTime(result.templates)
                 candidateId == DeleteCandidate(result.lastUsedTemplateId, sorted)
                 applied == AppliedAfterDelete(call, appliedTemplateId,
                                               result.lastUsedTemplateId, sorted)
             IN /\ templates' = sorted
                /\ selectedTemplateId' = candidateId
                /\ appliedTemplateId' = applied
                /\ dirty' = Changed("appliedTemplateId", appliedTemplateId, applied)
                /\ lastOp' = Op("deleteResolved", call.selected)
          /\ templateCalls' = Without(templateCalls, i)
  /\ optionsFrom' = Null
  /\ SetMessage(Message("success", "deleted"))
  /\ UNCHANGED <<fileList, selectedImage, watermarkOptions, latestCustomPosition,
                 newTemplateName, isConfigReady, applyingTemplateRef, configCall,
                 exportVars, timer, updateCalls, dragVars>>

\* ------------------------------------------- the template subsystem
NextTemplates ==
  \/ RunEffects
  \/ loadConfigResolved
  \/ loadConfigRejected
  \/ EditText
  \/ EditSize
  \/ EditColor
  \/ EditOpacity
  \/ handlePositionChange
  \/ handleTemplateNameChange
  \/ handleTemplateSelectChange
  \/ handleSaveTemplate
  \/ saveTemplateResolved
  \/ templateCallRejected
  \/ handleLoadTemplate
  \/ DeleteButtonClick
  \/ deleteTemplateResolved

Spec == Init /\ [][NextTemplates]_vars

\* The delete handler on its own: handleDeleteTemplate called in any state,
\* whatever the button's disabled attribute.
NextDeleteHandler == NextTemplates \/ handleDeleteTemplate
SpecDeleteHandler == Init /\ [][NextDeleteHandler]_vars

\* ----------------------------------------- the persistence subsystem
\* The templates and the live options together with the clock and the
\* timeout of the persistence effect; of the direct edits, the text.
NextSync ==
  \/ RunEffects
  \/ loadConfigResolved
  \/ loadConfigRejected
  \/ EditText
  \/ handleTemplateNameChange
  \/ handleTemplateSelectChange
  \/ handleSaveTemplate
  \/ saveTemplateResolved
  \/ templateCallRejected
  \/ handleLoadTemplate
  \/ DeleteButtonClick
  \/ deleteTemplateResolved
  \/ Tick
  \/ updateLastUsedOptions

SpecSync ==
  /\ Init
  /\ [][NextSync]_vars
  /\ WF_vars(Tick)
  /\ WF_vars(updateLastUsedOptions)
  /\ WF_vars(RunEffects)

\* -------------------------------------------------------- file queue
\* What the host answers for a path: getFileName and getThumbnail.
FileInfo(path) == [path |-> path, name |-> <<"name", path>>,
                   thumbnail |-> <<"thumbnail", path>>]
RECURSIVE FileInfos(_)
FileInfos(paths) ==
  IF paths = <<>> THEN <<>> ELSE <<FileInfo(Head(paths))>> \o FileInfos(Tail(paths))
RECURSIVE PathsInFlight(_)
PathsInFlight(calls) ==
  IF calls = <<>> THEN 0 ELSE Len(Head(calls).paths) + PathsInFlight(Tail(calls))
RECURSIVE Paths(_)
Paths(list) == IF list = <<>> THEN <<>> ELSE <<Head(list).path>> \o Paths(Tail(list))

\* processFiles, lines 286-294, up to the await of Promise.all; called with
\* the paths a picker or a drop produced (lines 298-318)
processFiles ==
  /\ UserEvent
  /\ \E files \in PathLists :
       IF files = <<>>
       THEN UNCHANGED addCalls
       ELSE /\ Len(fileList) + PathsInFlight(addCalls) + Len(files) <= MaxFiles
            /\ addCalls' = Append(addCalls, [paths |-> files])
  /\ lastOp' = Op("processFiles", Null)
  /\ UNCHANGED <<fileList, selectedImage, optionVars, templateVars, syncVars, dragVars, dirty,
                 exportOptions, exportStatus, exportCalls, progress, dirDialog,
                 lastExport>>

\* What a drop resolves to: the image files under the dropped paths.
DropLists == {<<"c.gif">>}

\* handleDrop, lines 308-318, from the drop to the await in processFiles: the
\* paths the host resolved the dropped files to go to processFiles
handleDrop ==
  /\ UserEvent
  /\ \E allImageFiles \in DropLists :
       /\ Len(fileList) + PathsInFlight(addCalls) + Len(allImageFiles) <= MaxFiles
       /\ addCalls' = Append(addCalls, [paths |-> allImageFiles])
  /\ lastOp' = Op("drop", Null)
  /\ UNCHANGED <<fileList, selectedImage, optionVars, templateVars, syncVars, dragVars, dirty,
                 exportOptions, exportStatus, exportCalls, progress, dirDialog,
                 lastExport>>

\* Line 295 replacing the list by the entries of the call: a mutant of
\* AppendUpdater.
AppendUpdaterReplaces(prevList, fileInfoList) == fileInfoList

\* The updater of line 295, (prevList) => [...prevList, ...fileInfoList]
AppendUpdater(prevList, fileInfoList) == prevList \o fileInfoList

\* The orders in which n promises can resolve
Orders(n) ==
  {o \in [1..n -> 1..n] : \A a, b \in 1..n : a # b => o[a] # o[b]}

\* The results in the order the promises resolved in: a mutant of PromiseAll.
PromiseAllByCompletion(paths, order) ==
  [k \in 1..Len(paths) |-> FileInfo(paths[order[k]])]

\* Promise.all over files.map, lines 288-294, when every promise resolves:
\* the result of the promise of the k-th path is at index k, whatever the
\* order the promises resolved in
PromiseAll(paths, order) ==
  [k \in 1..Len(paths) |-> FileInfo(paths[k])]

\* processFiles, line 295, when every path of the call has resolved
processFilesResolved ==
  /\ HostEvent
  /\ \E i \in 1..Len(addCalls) :
       /\ \E order \in Orders(Len(addCalls[i].paths)) :
            LET fileInfoList == PromiseAll(addCalls[i].paths, order)
            IN fileList' = AppendUpdater(fileList, fileInfoList)
       /\ addCalls' = Without(addCalls, i)
       /\ lastOp' = OpArg("processFilesResolved", IF i = 1 THEN "oldest" ELSE "later")
  /\ UNCHANGED <<selectedImage, optionVars, templateVars, syncVars, dragVars, dirty, exportOptions,
                 exportStatus, exportCalls, progress, dirDialog, lastExport>>

\* processFiles, lines 288-294, when getFileName or getThumbnail rejects for
\* one path of the call: Promise.all rejects, the await throws and line 295
\* is not reached, whatever the other paths resolved to
processFilesRejected ==
  /\ HostEvent
  /\ \E i \in 1..Len(addCalls) :
       /\ addCalls' = Without(addCalls, i)
       /\ \E k \in 1..Len(addCalls[i].paths) :
            lastOp' = OpArg("processFilesRejected", addCalls[i].paths[k])
  /\ UNCHANGED <<fileList, selectedImage, optionVars, templateVars, syncVars, dragVars, dirty,
                 exportOptions, exportStatus, exportCalls, progress, dirDialog,
                 lastExport>>

\* ---------------------------------------------------- export options
\* line 593
isExporting == exportStatus.state = "running"

\* Line 594 without its isExporting test: a mutant of disableExport.
disableExportIgnoresRunning == fileList = <<>> \/ exportOptions.outputDir = ""

\* line 594
disableExport == isExporting \/ fileList = <<>> \/ exportOptions.outputDir = ""

SetExportOptions(opts, op) ==
  /\ UserEvent
  /\ ~isExporting
  /\ exportOptions' = opts
  /\ lastOp' = Op(op, Null)
  /\ UNCHANGED <<fileList, selectedImage, optionVars, templateVars, syncVars, dragVars, dirty,
                 exportStatus, exportCalls, progress, addCalls, dirDialog,
                 lastExport>>

\* handleSelectExportDirectory, lines 506-507, up to the await (the button is
\* disabled while exporting, line 758)
handleSelectExportDirectory ==
  /\ UserEvent
  /\ ~isExporting
  /\ ~dirDialog
  /\ dirDialog' = TRUE
  /\ lastOp' = Op("selectDirectory", Null)
  /\ UNCHANGED <<fileList, selectedImage, optionVars, templateVars, syncVars, dragVars, dirty,
                 exportOptions, exportStatus, exportCalls, progress, addCalls,
                 lastExport>>

\* handleSelectExportDirectory, lines 507-510, when the dialog answers; ""
\* is the answer of a cancelled dialog
selectExportDirectoryResolved ==
  /\ HostEvent
  /\ dirDialog
  /\ dirDialog' = FALSE
  /\ \E directory \in DirectoryChoices :
       /\ exportOptions' = IF directory # ""
                           THEN [exportOptions EXCEPT !.outputDir = directory]
                           ELSE exportOptions
       /\ lastOp' = OpArg("directoryResolved", directory)
  /\ UNCHANGED <<fileList, selectedImage, optionVars, templateVars, syncVars, dragVars, dirty,
                 exportStatus, exportCalls, progress, addCalls, lastExport>>

\* handleNamingModeChange emptying the two texts: a mutant of
\* handleNamingModeChange.
handleNamingModeChangeResets ==
  \E value \in NamingChoices \ {exportOptions.namingMode} :
    SetExportOptions([exportOptions EXCEPT !.namingMode = value,
                                           !.prefix = <<>>, !.suffix = <<>>],
                     "namingMode")

\* handleNamingModeChange, lines 513-516
handleNamingModeChange ==
  \E value \in NamingChoices \ {exportOptions.namingMode} :
    SetExportOptions([exportOptions EXCEPT !.namingMode = value], "namingMode")

\* handleFormatChange, lines 518-521
handleFormatChange ==
  \E value \in FormatChoices \ {exportOptions.format} :
    SetExportOptions([exportOptions EXCEPT !.format = value], "format")

\* handleExportTextChange(key), lines 523-526; the input of the prefix is
\* rendered under namingMode = prefix only, that of the suffix under
\* namingMode = suffix only (lines 595-596, 773, 784)
handleExportTextChange ==
  \/ /\ exportOptions.namingMode = "prefix"
     /\ \E value \in PrefixChoices \ {exportOptions.prefix} :
          SetExportOptions([exportOptions EXCEPT !.prefix = value], "exportText")
  \/ /\ exportOptions.namingMode = "suffix"
     /\ \E value \in SuffixChoices \ {exportOptions.suffix} :
          SetExportOptions([exportOptions EXCEPT !.suffix = value], "exportText")

\* ------------------------------------------------------ batch export
Msg(kind, a, b) == Some([kind |-> kind, a |-> a, b |-> b])

\* Lines 572-578 counting the files queued now instead of the paths that
\* were sent: a mutant of OnExportResolved.
OnExportResolvedCountsQueue(payload, result) ==
  [state |-> "completed", total |-> Len(fileList), processed |-> Len(fileList),
   message |-> Msg("done", result.successCount, result.failureCount),
   summary |-> Some(result)]

\* Lines 572-578 going back to idle: a mutant of OnExportResolved.
OnExportResolvedToIdle(payload, result) ==
  [state |-> "idle", total |-> Len(payload.filePaths),
   processed |-> Len(payload.filePaths),
   message |-> Msg("done", result.successCount, result.failureCount),
   summary |-> Some(result)]

\* lines 572-578: the status after runBatchExport resolved
OnExportResolved(payload, result) ==
  [state |-> "completed", total |-> Len(payload.filePaths),
   processed |-> Len(payload.filePaths),
   message |-> Msg("done", result.successCount, result.failureCount),
   summary |-> Some(result)]

\* The rejection handler without its state field: a mutant of OnExportRejected.
OnExportRejectedKeepsState(prev) ==
  [prev EXCEPT !.message = Msg("error", 0, 0), !.summary = Undefined]

\* lines 580-586: the status after runBatchExport rejected
OnExportRejected(prev) ==
  [prev EXCEPT !.state = "error", !.message = Msg("error", 0, 0),
               !.summary = Undefined]

\* The progress callback without its guard: a mutant of OnProgress.
OnProgressUnguarded(prev, payload) ==
  [prev EXCEPT !.total = payload.total, !.processed = payload.processed,
               !.message = Msg("exporting", payload.processed, payload.total)]

\* The progress callback ignoring an event whose total is not that of the
\* run in the status: a mutant of OnProgress.
OnProgressSameTotal(prev, payload) ==
  IF prev.state # "running" \/ payload.total # prev.total THEN prev
  ELSE [prev EXCEPT !.total = payload.total, !.processed = payload.processed,
                    !.message = Msg("exporting", payload.processed, payload.total)]

\* lines 335-345: the status after a progress event
OnProgress(prev, payload) ==
  IF prev.state # "running" THEN prev
  ELSE [prev EXCEPT !.total = payload.total, !.processed = payload.processed,
                    !.message = Msg("exporting", payload.processed, payload.total)]

\* The guards of lines 529-550 without the outputDir test: a mutant of
\* StartGuard.
StartGuardFilesOnly(list, options) ==
  IF list = <<>> THEN "noFiles" ELSE "ok"

\* The guards of handleStartExport, lines 529 and 540
StartGuard(list, options) ==
  IF list = <<>> THEN "noFiles"
  ELSE IF options.outputDir = "" THEN "noDirectory"
  ELSE "ok"

\* handleStartExport, lines 528-571, up to the await of runBatchExport
handleStartExport ==
  /\ UserEvent
  /\ IF StartGuard(fileList, exportOptions) = "noFiles"
     THEN /\ exportStatus' = [state |-> "error", total |-> 0, processed |-> 0,
                              message |-> Msg("noFiles", 0, 0), summary |-> Undefined]
          /\ lastOp' = Op("startRefused", Null)
          /\ UNCHANGED exportCalls
     ELSE IF StartGuard(fileList, exportOptions) = "noDirectory"
     THEN /\ exportStatus' = [exportStatus EXCEPT !.state = "error",
                                !.total = Len(fileList), !.processed = 0,
                                !.message = Msg("noDirectory", 0, 0),
                                !.summary = Undefined]
          /\ lastOp' = Op("startRefused", Null)
          /\ UNCHANGED exportCalls
     ELSE LET exportPayload ==
                [filePaths |-> Paths(fileList),
                 watermarkOptions |-> watermarkOptions,
                 exportOptions |-> [exportOptions EXCEPT
                                      !.prefix = Trim(exportOptions.prefix),
                                      !.suffix = Trim(exportOptions.suffix)]]
          IN /\ Len(exportCalls) < MaxExportCalls
             /\ exportStatus' = [state |-> "running",
                                 total |-> Len(exportPayload.filePaths),
                                 processed |-> 0,
                                 message |-> Msg("exporting", 0, Len(exportPayload.filePaths)),
                                 summary |-> Undefined]
             /\ exportCalls' = Append(exportCalls, exportPayload)
             /\ lastOp' = Op("startCalled", Null)
  /\ UNCHANGED <<fileList, selectedImage, optionVars, templateVars, syncVars, dragVars, dirty,
                 exportOptions, progress, addCalls, dirDialog, lastExport>>

\* A click on the export button, lines 806-808: disabled by disableExport
ExportButtonClick ==
  /\ ~disableExport
  /\ handleStartExport

\* The host's answers to runBatchExport: per-file failures are part of the
\* summary of a resolved call.
Failure(path) == [file |-> path, reason |-> "decode error"]
RECURSIVE Failures(_)
Failures(paths) ==
  IF paths = <<>> THEN <<>> ELSE <<Failure(Head(paths))>> \o Failures(Tail(paths))
Summary(paths, failures) ==
  [successCount |-> Len(paths) - Len(failures), failureCount |-> Len(failures),
   failures |-> failures]
HostResults(paths) ==
  {Summary(paths, <<>>), Summary(paths, <<Failure(paths[1])>>),
   Summary(paths, Failures(paths))}

\* The host sends export:progress while it works on a call.
HostSendProgress ==
  /\ Cardinality(progress) < MaxProgress
  /\ \E i \in 1..Len(exportCalls) :
       \E k \in 1..Len(exportCalls[i].filePaths) :
         progress' = progress \cup
           {[processed |-> k, total |-> Len(exportCalls[i].filePaths),
             currentFile |-> exportCalls[i].filePaths[k]]}
  /\ UNCHANGED <<fileList, selectedImage, optionVars, templateVars, syncVars, dragVars, dirty,
                 exportOptions, exportStatus, exportCalls, addCalls, dirDialog,
                 lastExport, events, lastOp>>

\* The onExportProgress subscription, lines 333-346 (preload.ts lines 61-67):
\* an event is delivered, at any time after it was sent
onExportProgress ==
  /\ HostEvent
  /\ \E payload \in progress :
       /\ progress' = progress \ {payload}
       /\ exportStatus' = OnProgress(exportStatus, payload)
  /\ lastOp' = Op("progress", Null)
  /\ UNCHANGED <<fileList, selectedImage, optionVars, templateVars, syncVars, dragVars, dirty,
                 exportOptions, exportCalls, addCalls, dirDialog, lastExport>>

\* handleStartExport, lines 571-578, when runBatchExport resolves
runBatchExportResolved ==
  /\ HostEvent
  /\ \E i \in 1..Len(exportCalls) :
       \E result \in HostResults(exportCalls[i].filePaths) :
         /\ exportStatus' = OnExportResolved(exportCalls[i], result)
         /\ lastExport' = [sent |-> Len(exportCalls[i].filePaths),
                           result |-> Some(result)]
         /\ exportCalls' = Without(exportCalls, i)
  /\ lastOp' = Op("exportResolved", Null)
  /\ UNCHANGED <<fileList, selectedImage, optionVars, templateVars, syncVars, dragVars, dirty,
                 exportOptions, progress, addCalls, dirDialog>>

\* handleStartExport, lines 579-587, when runBatchExport rejects
runBatchExportRejected ==
  /\ HostEvent
  /\ \E i \in 1..Len(exportCalls) :
       /\ lastExport' = [sent |-> Len(exportCalls[i].filePaths), result |-> Undefined]
       /\ exportCalls' = Without(exportCalls, i)
  /\ exportStatus' = OnExportRejected(exportStatus)
  /\ lastOp' = Op("exportRejected", Null)
  /\ UNCHANGED <<fileList, selectedImage, optionVars, templateVars, syncVars, dragVars, dirty,
                 exportOptions, progress, addCalls, dirDialog>>

\* --------------------------------------------- the export subsystem
ExportCommon ==
  \/ RunEffects
  \/ EditText
  \/ processFiles
  \/ processFilesResolved
  \/ processFilesRejected
  \/ handleSelectExportDirectory
  \/ selectExportDirectoryResolved
  \/ handleNamingModeChange
  \/ handleFormatChange
  \/ handleExportTextChange
  \/ HostSendProgress
  \/ onExportProgress
  \/ runBatchExportResolved
  \/ runBatchExportRejected

\* The store is of no concern to an export: it starts empty.
InitExport == Init /\ host.templates = <<>> /\ host.lastUsedTemplateId = Null

\* The export as the user drives it: through the export button.  A host call
\* in flight settles, and an event sent is delivered.
NextExport == ExportCommon \/ ExportButtonClick
SpecExport ==
  /\ InitExport
  /\ [][NextExport]_vars
  /\ WF_vars(runBatchExportResolved \/ runBatchExportRejected)
  /\ WF_vars(onExportProgress)
  /\ WF_vars(RunEffects)

\* The handler on its own: handleStartExport called in any state, whatever
\* the button's disabled attribute.
NextHandler == ExportCommon \/ handleStartExport
SpecHandler == InitExport /\ [][NextHandler]_vars

\* ------------------------------------------------------ the messages
\* The two messages the user sees, the template message with its timeout
\* and the message of the export status, with the handlers that set them.
NextMessage ==
  \/ ExportCommon
  \/ ExportButtonClick
  \/ loadConfigResolved
  \/ loadConfigRejected
  \/ handleSaveTemplate
  \/ TickMessage
  \/ clearTemplateMessage

SpecMessage ==
  /\ InitExport
  /\ [][NextMessage]_vars
  /\ WF_vars(TickMessage)
  /\ WF_vars(clearTemplateMessage)
  /\ WF_vars(RunEffects)

\* ----------------------------------------- the position subsystem
\* What the host's store can hold as last used options when the application
\* starts: the defaults, a custom position, a custom position out of range,
\* custom without offsets, and a position the preset table does not have.
PositionOptions ==
  { DefaultOptions,
    [DefaultOptions EXCEPT !.mode = "custom", !.offsetX = Some(2), !.offsetY = Some(7)],
    [DefaultOptions EXCEPT !.mode = "custom", !.offsetX = Some(12), !.offsetY = Some(-3)],
    [DefaultOptions EXCEPT !.mode = "custom", !.position = "southeast",
                           !.offsetX = Undefined, !.offsetY = Undefined],
    [DefaultOptions EXCEPT !.position = "nowhere",
                           !.offsetX = Undefined, !.offsetY = Undefined] }
PositionTemplate ==
  [id |-> 1, name |-> <<"a">>, createdAt |-> 1,
   options |-> [DefaultOptions EXCEPT !.mode = "custom", !.offsetX = Some(2),
                                      !.offsetY = Some(7)]]
PositionHosts ==
  { [templates |-> <<>>, lastUsedOptions |-> o, lastUsedTemplateId |-> Null,
     nextId |-> 1] : o \in PositionOptions }
  \cup { [templates |-> <<PositionTemplate>>,
          lastUsedOptions |-> PositionTemplate.options,
          lastUsedTemplateId |-> 1, nextId |-> 2] }

\* Where the pointer is in the preview stage, (clientX - rect.left) /
\* rect.width and (clientY - rect.top) / rect.height of lines 360-361, in
\* tenths: inside the stage and outside of it.
PointerChoices == {[x |-> 3, y |-> 8], [x |-> 12, y |-> -4]}
\* What applyWatermark answers: image data, or nothing.
PreviewResults == {"data", "none"}
\* The calls whose response can arrive next: applyWatermark is asynchronous,
\* line 239, and every call in flight is answered on its own.
PreviewResponses(calls) == 1..Len(calls)
\* The list without its i-th element
RemoveAt(list, i) == SubSeq(list, 1, i - 1) \o SubSeq(list, i + 1, Len(list))

\* handleFileClick, lines 424-427
handleFileClick ==
  /\ UserEvent
  /\ \E i \in 1..Len(fileList) :
       /\ selectedImage' = fileList[i]
       /\ dirty' = Changed("selectedImage", selectedImage, fileList[i])
  /\ previewImage' = NoPreview
  /\ lastOp' = Op("fileClick", Null)
  /\ UNCHANGED <<fileList, optionVars, templateVars, exportVars, syncVars,
                 overlayPosition, isDragging, previewCalls>>

\* The preview effect, lines 238-243, when applyWatermark resolves
applyWatermarkResolved ==
  /\ dirty = {}
  /\ UNCHANGED events
  /\ \E i \in PreviewResponses(previewCalls) :
       /\ previewCalls' = RemoveAt(previewCalls, i)
       /\ \E watermarkedImage \in PreviewResults :
            /\ previewImage' = IF watermarkedImage # "none" THEN previewCalls[i]
                               ELSE previewImage
            /\ lastOp' = OpArg("previewResolved", watermarkedImage)
  /\ UNCHANGED <<fileList, selectedImage, optionVars, templateVars, exportVars,
                 syncVars, overlayPosition, isDragging, dirty>>

\* renderWatermarkPreview, lines 602-621, inside the preview stage of line
\* 642: the draggable anchor is rendered
anchorRendered ==
  /\ selectedImage # NoImage
  /\ previewImage # NoPreview
  /\ watermarkOptions.text # ""
  /\ watermarkOptions.mode = "custom"

\* updatePositionFromPointer without clamp: a mutant of
\* updatePositionFromPointer.
updatePositionUnclamped(current, pointer, hasArea) ==
  IF ~hasArea THEN current ELSE pointer

\* updatePositionFromPointer, lines 355-365, as the position it leaves in
\* overlayPosition and latestCustomPosition.current; hasArea is false for a
\* stage of width or height 0
updatePositionFromPointer(current, pointer, hasArea) ==
  IF ~hasArea THEN current
  ELSE [x |-> clamp(pointer.x), y |-> clamp(pointer.y)]

\* handleOverlayPointerDown, lines 377-383
handleOverlayPointerDown ==
  /\ UserEvent
  /\ anchorRendered
  /\ IF selectedImage = NoImage
     THEN /\ lastOp' = Op("pointerIgnored", Null)
          /\ UNCHANGED <<isDragging, overlayPosition, latestCustomPosition>>
     ELSE /\ isDragging' = TRUE
          /\ \E pointer \in PointerChoices, hasArea \in BOOLEAN :
               /\ overlayPosition' =
                    updatePositionFromPointer(overlayPosition, pointer, hasArea)
               /\ latestCustomPosition' =
                    updatePositionFromPointer(latestCustomPosition, pointer, hasArea)
          /\ lastOp' = Op("pointerDown", Null)
  /\ UNCHANGED <<fileList, selectedImage, watermarkOptions, optionsFrom,
                 templateVars, exportVars, syncVars, previewImage, previewCalls,
                 dirty>>

\* handleOverlayPointerMove committing each position it passes: a mutant of
\* handleOverlayPointerMove.
handleOverlayPointerMoveCommits ==
  /\ anchorRendered
  /\ isDragging
  /\ \E pointer \in PointerChoices :
       /\ overlayPosition' = updatePositionFromPointer(overlayPosition, pointer, TRUE)
       /\ latestCustomPosition' =
            updatePositionFromPointer(latestCustomPosition, pointer, TRUE)
       /\ watermarkOptions' =
            CustomOptions(watermarkOptions,
                          updatePositionFromPointer(latestCustomPosition, pointer, TRUE))
  /\ UserEvent
  /\ optionsFrom' = Null
  /\ dirty' = {"watermarkOptions"}
  /\ lastOp' = Op("pointerMove", Null)
  /\ UNCHANGED <<fileList, selectedImage, templateVars, exportVars, syncVars,
                 isDragging, previewImage, previewCalls>>

\* handleOverlayPointerMove, lines 385-389
handleOverlayPointerMove ==
  /\ UserEvent
  /\ anchorRendered
  /\ IF ~isDragging
     THEN /\ lastOp' = Op("pointerIgnored", Null)
          /\ UNCHANGED <<overlayPosition, latestCustomPosition>>
     ELSE /\ \E pointer \in PointerChoices, hasArea \in BOOLEAN :
               /\ overlayPosition' =
                    updatePositionFromPointer(overlayPosition, pointer, hasArea)
               /\ latestCustomPosition' =
                    updatePositionFromPointer(latestCustomPosition, pointer, hasArea)
          /\ lastOp' = Op("pointerMove", Null)
  /\ UNCHANGED <<fileList, selectedImage, watermarkOptions, optionsFrom,
                 templateVars, exportVars, syncVars, isDragging, previewImage,
                 previewCalls, dirty>>

\* A release handler that commits nothing: a mutant of Release.
ReleaseKeepsOptions(op) ==
  /\ anchorRendered
  /\ UserEvent
  /\ isDragging' = FALSE
  /\ lastOp' = Op(IF isDragging THEN op ELSE "releaseIgnored", Null)
  /\ UNCHANGED <<fileList, selectedImage, optionVars, templateVars, exportVars,
                 syncVars, overlayPosition, previewImage, previewCalls, dirty>>

\* The body the two release handlers share, lines 391-405
Release(op) ==
  /\ anchorRendered
  /\ IF ~isDragging
     THEN /\ UserEvent
          /\ lastOp' = Op("releaseIgnored", Null)
          /\ UNCHANGED <<fileList, selectedImage, optionVars, templateVars,
                         exportVars, syncVars, dragVars, dirty>>
     ELSE /\ isDragging' = FALSE
          /\ SetOptionsOnly(CustomOptions(watermarkOptions, latestCustomPosition), op)

\* handleOverlayPointerUp, lines 391-397
handleOverlayPointerUp == Release("pointerUp")
\* handleOverlayPointerCancel, lines 399-405
handleOverlayPointerCancel == Release("pointerCancel")

NextPosition ==
  \/ RunEffects
  \/ loadConfigResolved
  \/ EditText
  \/ handlePositionChangeAny
  \/ processFiles
  \/ processFilesResolved
  \/ handleFileClick
  \/ applyWatermarkResolved
  \/ handleOverlayPointerDown
  \/ handleOverlayPointerMove
  \/ handleOverlayPointerUp
  \/ handleOverlayPointerCancel

InitPosition == InitApp /\ host \in PositionHosts
SpecPosition == InitPosition /\ [][NextPosition]_vars

\* ---------------------------------------------------- the file queue
\* Files added by the pickers and by a drop, with calls that overlap.
NextFiles ==
  \/ RunEffects
  \/ processFiles
  \/ handleDrop
  \/ processFilesResolved
  \/ processFilesRejected
  \/ handleFileClick

SpecFiles == InitExport /\ [][NextFiles]_vars

\* ============================================================ claims
Quiescent == dirty = {}
DirectEdits == {"edit", "editCustom", "editPreset", "pointerUp", "pointerCancel"}
SameTemplates(list, returned) ==
  /\ Len(list) = Len(returned)
  /\ {list[i] : i \in 1..Len(list)} = {returned[i] : i \in 1..Len(returned)}

\* C1: once the initial load has completed, after a direct edit of the live
\* options (text, size, color, opacity, a preset position, a committed custom
\* position) and the reaction to it, appliedTemplateId is null.
C1_DirectEditClearsApplied ==
  (isConfigReady /\ lastOp.op \in DirectEdits /\ Quiescent)
    => appliedTemplateId = Null

\* C2: after handleLoadTemplate loads the selected template T, the live
\* options are T.options and appliedTemplateId is T.id, before and after the
\* reaction to the load.
C2_LoadAppliesTemplate ==
  lastOp.op = "load" =>
    /\ lastOp.id = selectedTemplateId
    /\ lastOp.id \in Ids(templates)
    /\ watermarkOptions = Find(templates, lastOp.id).options
    /\ appliedTemplateId = lastOp.id

\* C2 witness: a template was loaded over different live options and another
\* applied id, and the reaction to the load has run and consumed the flag.
C2_Witness ==
  /\ lastOp.op = "load"
  /\ Quiescent
  /\ ~applyingTemplateRef
  /\ watermarkOptions # DefaultOptions
  /\ events >= 2

\* C3: after saveTemplate resolved with a new id and the reactions to it have
\* run, selectedTemplateId and appliedTemplateId are that id and the templates
\* list holds the returned templates.
C3_SaveSelectsAndApplies ==
  (lastOp.op = "saveResolved" /\ Quiescent) =>
    /\ selectedTemplateId = lastOp.id
    /\ appliedTemplateId = lastOp.id
    /\ SameTemplates(templates, host.templates)

\* C4: in a quiescent state, an applied id that names a template of the list
\* means the live options are that template's snapshot.
C4_AppliedMatchesSnapshot ==
  (Quiescent /\ appliedTemplateId # Null /\ appliedTemplateId \in Ids(templates))
    => watermarkOptions = Find(templates, appliedTemplateId).options

\* C5: a progress event delivered while the export status is not Running
\* leaves the whole status (state, total, processed, message, summary) as it
\* was.
C5_LateProgressIgnored ==
  [][(progress' # progress /\ lastOp'.op = "progress"
        /\ Cardinality(progress') < Cardinality(progress)
        /\ exportStatus.state # "running")
      => exportStatus' = exportStatus]_vars

\* C5 witness: an event was delivered after the run it belongs to had
\* completed and no call was in flight.
C5_Witness ==
  /\ lastOp.op = "progress"
  /\ exportStatus.state = "completed"
  /\ exportCalls = <<>>

\* C6: when runBatchExport resolves, whatever it reports and whatever
\* progress was received, the status is Completed with the host's result as
\* summary and processed = total = the number of paths sent.
C6_ResolvedIsCompleted ==
  lastOp.op = "exportResolved" =>
    /\ exportStatus.state = "completed"
    /\ exportStatus.summary = lastExport.result
    /\ exportStatus.processed = lastExport.sent
    /\ exportStatus.total = lastExport.sent

\* C6 witness: a run resolved with a failure in its summary after the file
\* list had grown beyond the paths that were sent.
C6_Witness ==
  /\ lastOp.op = "exportResolved"
  /\ lastExport.result # Undefined
  /\ lastExport.result[1].failureCount > 0
  /\ Len(fileList) > lastExport.sent

\* C7: handleStartExport with an empty file list or an empty outputDir puts
\* the status in Error with summary null and processed 0, issues no
\* runBatchExport call and leaves file list, live options and export options
\* alone.
C7_RefusedStart ==
  [][(events' # events /\ lastOp'.op \in {"startRefused", "startCalled"}
        /\ (fileList = <<>> \/ exportOptions.outputDir = ""))
      => /\ exportStatus'.state = "error"
         /\ exportStatus'.summary = Undefined
         /\ exportStatus'.processed = 0
         /\ exportCalls' = exportCalls
         /\ fileList' = fileList
         /\ watermarkOptions' = watermarkOptions
         /\ exportOptions' = exportOptions]_vars

\* C7 witness: the handler refused a start with files queued and no output
\* directory.
C7_Witness ==
  /\ lastOp.op = "startRefused"
  /\ fileList # <<>>
  /\ exportOptions.outputDir = ""
  /\ exportStatus.state = "error"

\* C8: when runBatchExport rejects, the status is Error with the rejection
\* message and summary null, and file list, live options and export options
\* are as before.
C8_RejectedIsError ==
  [][(lastOp'.op = "exportRejected" /\ Len(exportCalls') < Len(exportCalls))
      => /\ exportStatus'.state = "error"
         /\ exportStatus'.message = Msg("error", 0, 0)
         /\ exportStatus'.summary = Undefined
         /\ fileList' = fileList
         /\ watermarkOptions' = watermarkOptions
         /\ exportOptions' = exportOptions]_vars

\* C8 witness: a run was rejected after progress had been received.
C8_Witness ==
  /\ lastOp.op = "exportRejected"
  /\ exportStatus.state = "error"
  /\ exportStatus.processed > 0

\* C9: at most one runBatchExport call is in flight, and one is in flight
\* only while the status is Running; the export button is enabled only when
\* the status is not Running, files are queued and outputDir is set.
C9_OneExportAtATime ==
  /\ Len(exportCalls) <= 1
  /\ Len(exportCalls) = 1 <=> exportStatus.state = "running"
  /\ (ENABLED ExportButtonClick) =>
       /\ exportStatus.state # "running"
       /\ fileList # <<>>
       /\ exportOptions.outputDir # ""

\* C9 witness: a call is in flight and the user goes on with other events.
C9_Witness ==
  /\ Len(exportCalls) = 1
  /\ lastOp.op = "processFilesResolved"
  /\ exportOptions.outputDir # ""
  /\ events < MaxEvents

\* C10 as stated: from Completed or Error the export status returns to Idle.
C10_ReturnsToIdle ==
  (exportStatus.state \in {"completed", "error"}) ~> (exportStatus.state = "idle")

\* C10 amended: the status never returns to Idle once it has left it.  Its
\* transitions are Idle -> Running, Running -> Completed, Running -> Error,
\* and Completed or Error -> Running when a new run is started.
C10_NeverBackToIdle ==
  [][\/ exportStatus'.state = exportStatus.state
     \/ <<exportStatus.state, exportStatus'.state>> \in
          {<<"idle", "running">>, <<"running", "completed">>,
           <<"running", "error">>, <<"completed", "running">>,
           <<"error", "running">>}]_vars

\* C10 witness: a new run is running that was started after an earlier run
\* had settled.
C10_Witness ==
  /\ exportStatus.state = "running"
  /\ lastOp.op = "startCalled"
  /\ lastExport.sent > 0

\* A sequence of blanks only.
Blank(s) == \A i \in 1..Len(s) : s[i] = " "
\* t is s without its leading and trailing blanks.
IsTrimOf(t, s) ==
  /\ t = <<>> \/ (t[1] # " " /\ t[Len(t)] # " ")
  /\ \E i \in 0..Len(s) : \E j \in i..Len(s) :
       /\ t = SubSeq(s, i + 1, j)
       /\ Blank(SubSeq(s, 1, i))
       /\ Blank(SubSeq(s, j + 1, Len(s)))

\* C11: handleStartExport with files queued and an outputDir puts the status
\* in Running with total = the length of the file list, processed 0 and
\* summary null, and issues one runBatchExport call whose payload holds the
\* path of every queued file in queue order, the live options, and the
\* export options with prefix and suffix trimmed.
C11_StartEntersRunning ==
  [][(events' # events /\ lastOp'.op \in {"startRefused", "startCalled"}
        /\ fileList # <<>> /\ exportOptions.outputDir # "")
      => /\ exportStatus'.state = "running"
         /\ exportStatus'.total = Len(fileList)
         /\ exportStatus'.processed = 0
         /\ exportStatus'.summary = Undefined
         /\ Len(exportCalls') = Len(exportCalls) + 1
         /\ SubSeq(exportCalls', 1, Len(exportCalls)) = exportCalls
         /\ LET sent == exportCalls'[Len(exportCalls')]
            IN /\ Len(sent.filePaths) = Len(fileList)
               /\ \A i \in 1..Len(fileList) : sent.filePaths[i] = fileList[i].path
               /\ sent.watermarkOptions = watermarkOptions
               /\ sent.exportOptions.outputDir = exportOptions.outputDir
               /\ sent.exportOptions.namingMode = exportOptions.namingMode
               /\ sent.exportOptions.format = exportOptions.format
               /\ IsTrimOf(sent.exportOptions.prefix, exportOptions.prefix)
               /\ IsTrimOf(sent.exportOptions.suffix, exportOptions.suffix)]_vars

\* C11 witness: a run was started with the same path queued twice and a
\* prefix that has blanks around it.
C11_Witness ==
  /\ lastOp.op = "startCalled"
  /\ Len(fileList) = 2
  /\ fileList[1].path = fileList[2].path
  /\ exportOptions.prefix # Trim(exportOptions.prefix)
  /\ Len(exportCalls) = 1
  /\ exportCalls[1].filePaths = <<fileList[1].path, fileList[2].path>>

\* C12: after the initial load, once the reaction to a change of the live
\* options or of the applied id has run, one timeout is pending with the
\* whole delay ahead and the current options and applied id; an
\* updateLastUsedOptions call is issued only when that delay has passed, one
\* call, carrying the options and the applied id current at that moment, and
\* no timeout is left; a pending timeout ends in its call or in a new change.
C12_OneCallAfterQuiet ==
  /\ [][(isConfigReady /\ dirty \cap {"watermarkOptions", "appliedTemplateId"} # {}
            /\ dirty' = {})
          => timer' = Some([options |-> watermarkOptions',
                            templateId |-> appliedTemplateId',
                            remaining |-> DebounceDelay])]_vars
  /\ [][updateCalls' # updateCalls
          => /\ updateCalls' = updateCalls + 1
             /\ timer # Undefined
             /\ timer[1].remaining = 0
             /\ timer' = Undefined
             /\ host'.lastUsedOptions = watermarkOptions
             /\ host'.lastUsedTemplateId = appliedTemplateId]_vars
  /\ (timer # Undefined /\ Quiescent) ~> (timer = Undefined \/ ~Quiescent)

\* C12 witness: the load and two user changes, each before the timeout of the
\* one before had run, and then the one call, with what the last change left.
C12_Witness ==
  /\ lastOp.op = "updateLastUsedOptions"
  /\ updateCalls = 1
  /\ events >= 2
  /\ timer = Undefined
  /\ host.lastUsedOptions = watermarkOptions
  /\ watermarkOptions \notin {DefaultOptions, StoredOptions}

\* C13: while the initial getConfigState call has not settled (isConfigReady
\* is false) no timeout of the persistence effect is pending and no
\* updateLastUsedOptions call has been issued, whatever the user has edited.
C13_NoWriteBeforeLoad ==
  (~isConfigReady \/ configCall = "pending") =>
    /\ timer = Undefined
    /\ updateCalls = 0
    /\ ~ENABLED updateLastUsedOptions

\* C13 witness: the user has edited the live options before the load
\* settled, and the reaction to the edit has run.
C13_Witness ==
  /\ ~isConfigReady
  /\ configCall = "pending"
  /\ lastOp.op = "edit"
  /\ Quiescent
  /\ watermarkOptions # DefaultOptions
  /\ events >= 2

\* C14: handleSaveTemplate with a name that is empty or all blanks issues no
\* saveTemplate call and sets an error message; templates, selectedTemplateId,
\* appliedTemplateId, the live options and the host's store are as before.
C14_BlankNameNotSaved ==
  [][(events' # events /\ lastOp'.op \in {"saveInvalid", "saveCalled"}
        /\ Blank(newTemplateName))
      => /\ templateCalls' = templateCalls
         /\ templateMessage'.type = "error"
         /\ templates' = templates
         /\ selectedTemplateId' = selectedTemplateId
         /\ appliedTemplateId' = appliedTemplateId
         /\ watermarkOptions' = watermarkOptions
         /\ optionsFrom' = optionsFrom
         /\ host' = host
         /\ dirty' = {}]_vars

\* C14 witness: a save was refused for a name of blanks while a template was
\* applied.
C14_Witness ==
  /\ lastOp.op = "saveInvalid"
  /\ newTemplateName = <<" ">>
  /\ templateMessage.type = "error"
  /\ appliedTemplateId # Null
  /\ templateCalls = <<>>

\* C15: handleDeleteTemplate with selectedTemplateId null sets an error
\* message, issues no deleteTemplate call and leaves templates,
\* selectedTemplateId, appliedTemplateId and the host's store as they were.
C15_DeleteNeedsSelection ==
  [][(events' # events /\ lastOp'.op \in {"deleteRefused", "deleteCalled"}
        /\ selectedTemplateId = Null)
      => /\ templateMessage'.type = "error"
         /\ templateCalls' = templateCalls
         /\ templates' = templates
         /\ selectedTemplateId' = selectedTemplateId
         /\ appliedTemplateId' = appliedTemplateId
         /\ host' = host]_vars

\* C15 witness: a delete was refused after the config was loaded, with
\* nothing selected.
C15_Witness ==
  /\ lastOp.op = "deleteRefused"
  /\ isConfigReady
  /\ selectedTemplateId = Null
  /\ templateMessage.type = "error"

\* The id of the template with the greatest createdAt, null for no template.
MostRecentId(list) ==
  IF list = <<>> THEN Null
  ELSE list[CHOOSE i \in 1..Len(list) :
              \A j \in 1..Len(list) : list[i].createdAt >= list[j].createdAt].id
\* The fallback after a delete: the last used id when the list has it, else
\* the most recent template, else null.
DeleteFallback(lastUsed, list) ==
  IF lastUsed # Null /\ lastUsed \in Ids(list) THEN lastUsed ELSE MostRecentId(list)

\* C16: after deleteTemplate resolved, selectedTemplateId is the last used id
\* the host reported when the returned list has it, else the id of the
\* template of the returned list with the greatest createdAt, else null.
C16_SelectionAfterDelete ==
  lastOp.op = "deleteResolved" =>
    /\ selectedTemplateId = DeleteFallback(host.lastUsedTemplateId, host.templates)
    /\ SameTemplates(templates, host.templates)
    /\ lastOp.id \notin Ids(templates)

\* C16 witness: two templates remain and the selection fell on the last used
\* one, which is not the most recent.
C16_Witness ==
  /\ lastOp.op = "deleteResolved"
  /\ Len(templates) = 2
  /\ selectedTemplateId = host.lastUsedTemplateId
  /\ selectedTemplateId # MostRecentId(templates)

\* C17: after deleteTemplate resolved for the selected template, before and
\* after the reaction to it, appliedTemplateId is the fallback the selection
\* took: the last used id the host reported when the returned list has it,
\* else the most recent remaining template, else null.
C17_AppliedAfterDelete ==
  lastOp.op = "deleteResolved" =>
    appliedTemplateId = DeleteFallback(host.lastUsedTemplateId, host.templates)

\* C18: after getConfigState resolved, before and after the reaction to it,
\* the live options are the host's lastUsedOptions; selectedTemplateId is
\* lastUsedTemplateId when a loaded template has it, else the most recent
\* template's id, else null; appliedTemplateId is lastUsedTemplateId when a
\* loaded template has it and null otherwise.
C18_StateAfterLoad ==
  lastOp.op = "loadConfigResolved" =>
    LET matches == /\ host.lastUsedTemplateId # Null
                   /\ host.lastUsedTemplateId \in Ids(host.templates)
    IN /\ watermarkOptions = host.lastUsedOptions
       /\ SameTemplates(templates, host.templates)
       /\ selectedTemplateId = IF matches THEN host.lastUsedTemplateId
                                ELSE MostRecentId(host.templates)
       /\ appliedTemplateId = IF matches THEN host.lastUsedTemplateId ELSE Null
       /\ isConfigReady

\* C18 witness: the load resolved after the user had edited the defaults, a
\* loaded template is the last used one, and the reaction has run.
C18_Witness ==
  /\ lastOp.op = "loadConfigResolved"
  /\ Quiescent
  /\ ~applyingTemplateRef
  /\ events >= 1
  /\ appliedTemplateId # Null
  /\ appliedTemplateId = host.lastUsedTemplateId
  /\ watermarkOptions = StoredOptions

\* C19: when getConfigState rejects, the live options stay as they are and
\* afterwards the templates list is empty, selectedTemplateId and
\* appliedTemplateId are null, an error message is set and isConfigReady is
\* true; once the reaction has run, the user can edit the options, type a
\* template name, save, queue files and start an export.
C19_LoadFailureDegrades ==
  /\ [](lastOp.op = "loadConfigRejected" =>
          /\ templates = <<>>
          /\ selectedTemplateId = Null
          /\ appliedTemplateId = Null
          /\ templateMessage.type = "error"
          /\ isConfigReady
          /\ (Quiescent /\ events < MaxEvents) =>
                /\ ENABLED EditText
                /\ ENABLED handlePositionChange
                /\ ENABLED handleTemplateNameChange
                /\ ENABLED handleSaveTemplate
                /\ ENABLED processFiles
                /\ ENABLED handleSelectExportDirectory
                /\ ENABLED handleStartExport)
  /\ [][lastOp'.op = "loadConfigRejected" /\ configCall = "pending"
          => /\ watermarkOptions' = watermarkOptions
             /\ optionsFrom' = optionsFrom]_vars

\* C19 witness: the load was rejected after the user had edited the
\* defaults, the reaction has run and the user can go on.
C19_Witness ==
  /\ lastOp.op = "loadConfigRejected"
  /\ Quiescent
  /\ watermarkOptions # DefaultOptions
  /\ events < MaxEvents
  /\ isConfigReady

\* C20: when a saveTemplate or deleteTemplate call rejects, the templates
\* list, selectedTemplateId, appliedTemplateId, the pending template name and
\* the live options are as before, no reaction is triggered, and the message
\* is an error message.
C20_RejectedCallChangesNothing ==
  [][(lastOp'.op \in {"saveRejected", "deleteRejected"}
        /\ Len(templateCalls') < Len(templateCalls))
      => /\ templateMessage'.type = "error"
         /\ templates' = templates
         /\ selectedTemplateId' = selectedTemplateId
         /\ appliedTemplateId' = appliedTemplateId
         /\ newTemplateName' = newTemplateName
         /\ watermarkOptions' = watermarkOptions
         /\ optionsFrom' = optionsFrom
         /\ applyingTemplateRef' = applyingTemplateRef
         /\ dirty' = dirty
         /\ timer' = timer
         /\ fileList' = fileList
         /\ exportVars' = exportVars]_vars

\* C20 witness: a save was rejected while a name was pending and a template
\* was applied.
C20_Witness ==
  /\ lastOp.op = "saveRejected"
  /\ Trim(newTemplateName) # <<>>
  /\ templates # <<>>
  /\ appliedTemplateId # Null
  /\ templateMessage.type = "error"

\* C21: the templates list is ordered by createdAt descending in every
\* state, after each load, save and delete response, whatever the order of
\* the list the host returned.
C21_TemplatesSorted ==
  \A i \in 1..Len(templates) : \A j \in i..Len(templates) :
    templates[i].createdAt >= templates[j].createdAt

\* C21 witness: a save response was applied whose list the host returned in
\* another order than the one displayed.
C21_Witness ==
  /\ lastOp.op = "saveResolved"
  /\ Len(templates) >= 2
  /\ templates # host.templates
  /\ SameTemplates(templates, host.templates)

\* A number of [0,1], in tenths.
InUnit(v) == 0 <= v /\ v <= 10

\* C22: in every state the live options have both offsets, within [0,1],
\* when mode is custom, and no offset when mode is preset.
C22_OffsetsMatchMode ==
  /\ watermarkOptions.mode = "custom" =>
       /\ watermarkOptions.offsetX # Undefined
       /\ watermarkOptions.offsetY # Undefined
       /\ InUnit(watermarkOptions.offsetX[1])
       /\ InUnit(watermarkOptions.offsetY[1])
  /\ watermarkOptions.mode = "preset" =>
       /\ watermarkOptions.offsetX = Undefined
       /\ watermarkOptions.offsetY = Undefined

\* C23: choosing a preset in the position selector, from any state, yields
\* mode preset, position the chosen preset and no offsets, and leaves text,
\* size, color and opacity as they were.
C23_PresetClearsOffsets ==
  [][(events' # events /\ lastOp'.op = "editPreset")
      => /\ lastOp'.arg \in PresetPositions
         /\ watermarkOptions'.mode = "preset"
         /\ watermarkOptions'.position = lastOp'.arg
         /\ watermarkOptions'.offsetX = Undefined
         /\ watermarkOptions'.offsetY = Undefined
         /\ watermarkOptions'.text = watermarkOptions.text
         /\ watermarkOptions'.size = watermarkOptions.size
         /\ watermarkOptions'.color = watermarkOptions.color
         /\ watermarkOptions'.opacity = watermarkOptions.opacity]_vars

\* C23 witness: a preset was chosen with an image selected while a custom
\* position was the candidate.
C23_Witness ==
  /\ lastOp.op = "editPreset"
  /\ lastOp.arg = "northwest"
  /\ watermarkOptions.position = "northwest"
  /\ selectedImage # NoImage
  /\ latestCustomPosition \notin {Center, presetPositionMap("northwest")}

\* The handlers that commit a custom position.
CustomCommits == {"editCustom", "pointerUp", "pointerCancel"}

\* C24: every commit of a custom position, by pointer-up, by pointer-cancel or
\* by choosing Custom in the selector, leaves mode custom with both offsets
\* defined and within [0,1] (here 0..10, in tenths), and the candidate position
\* it commits is within the unit square in every reachable state.
C24_CommitInRange ==
  /\ [](InUnit(latestCustomPosition.x) /\ InUnit(latestCustomPosition.y))
  /\ [][(events' # events /\ lastOp'.op \in CustomCommits) =>
          /\ watermarkOptions'.mode = "custom"
          /\ watermarkOptions'.offsetX # Undefined
          /\ watermarkOptions'.offsetY # Undefined
          /\ InUnit(watermarkOptions'.offsetX[1])
          /\ InUnit(watermarkOptions'.offsetY[1])]_vars

\* C24 witness: a pointer position outside the stage was clamped to the corner
\* (1, 0) and a release committed it.
C24_Witness ==
  /\ lastOp.op \in {"pointerUp", "pointerCancel"}
  /\ watermarkOptions.mode = "custom"
  /\ watermarkOptions.offsetX = Some(10)
  /\ watermarkOptions.offsetY = Some(0)
  /\ dirty = {"watermarkOptions"}

\* C25: a pointer press and a pointer move change only the transient overlay
\* and candidate position (and the dragging flag): the live options, the
\* applied template id, the pending persistence timeout and the host's store
\* are as before, and no effect is left to run.
C25_DragIsTransient ==
  [][(events' # events /\ lastOp'.op \in {"pointerDown", "pointerMove"}) =>
       /\ UNCHANGED <<watermarkOptions, optionsFrom, appliedTemplateId,
                      applyingTemplateRef, timer, updateCalls, host, dirty,
                      fileList, selectedImage, templates, selectedTemplateId,
                      previewImage, previewCalls, exportVars>>
       /\ dirty' = {}]_vars

\* C25 witness: in the middle of a drag, with a template applied, the
\* candidate has moved away from the offsets of the live options.
C25_Witness ==
  /\ lastOp.op = "pointerMove"
  /\ isDragging
  /\ appliedTemplateId # Null
  /\ watermarkOptions.mode = "custom"
  /\ latestCustomPosition # [x |-> watermarkOptions.offsetX[1],
                              y |-> watermarkOptions.offsetY[1]]
  /\ overlayPosition = latestCustomPosition

AnchorOf(p) ==
  [x |-> IF p \in {"west", "northwest", "southwest"} THEN 1
         ELSE IF p \in {"east", "northeast", "southeast"} THEN 9 ELSE 5,
   y |-> IF p \in {"north", "northwest", "northeast"} THEN 1
         ELSE IF p \in {"south", "southwest", "southeast"} THEN 9 ELSE 5]

\* What the resolved position is to be for the selected image and the live
\* options.
ExpectedPosition ==
  IF selectedImage = NoImage THEN [x |-> 5, y |-> 5]
  ELSE IF /\ watermarkOptions.mode = "custom"
          /\ watermarkOptions.offsetX # Undefined
          /\ watermarkOptions.offsetY # Undefined
       THEN [x |-> Min2(Max2(watermarkOptions.offsetX[1], 0), 10),
             y |-> Min2(Max2(watermarkOptions.offsetY[1], 0), 10)]
       ELSE AnchorOf(watermarkOptions.position)

\* C27: when the effects of a change of the selected image or of the live
\* options run, the resolved overlay position and the candidate both become
\* (0.5, 0.5) with no image selected, else the clamped offsets in custom mode
\* with both offsets defined, else the table anchor of the position, (0.5,
\* 0.5) for an unknown position.
C27_ResolvedPosition ==
  [][(dirty \cap {"selectedImage", "watermarkOptions"} # {}) =>
       /\ overlayPosition' = ExpectedPosition
       /\ latestCustomPosition' = ExpectedPosition
       /\ UNCHANGED <<selectedImage, watermarkOptions>>]_vars

\* C27 witness: offsets out of range, read from the store, were resolved to
\* the corner (1, 0) for the selected image.
C27_Witness ==
  /\ dirty = {}
  /\ selectedImage # NoImage
  /\ watermarkOptions.mode = "custom"
  /\ watermarkOptions.offsetX = Some(12)
  /\ watermarkOptions.offsetY = Some(-3)
  /\ overlayPosition = [x |-> 10, y |-> 0]
  /\ latestCustomPosition = [x |-> 10, y |-> 0]

\* C28: choosing Custom in the position selector commits the candidate
\* position: with an image selected and preset P active the new offsets are
\* the table anchor of P, with no image selected they are (0.5, 0.5), and the
\* position field stays P.  So offsets that an earlier choice of a preset
\* discarded do not come back.
C28_CustomFromSelector ==
  [][(events' # events /\ lastOp'.op = "editCustom") =>
       /\ watermarkOptions.mode = "preset"
       /\ watermarkOptions'.mode = "custom"
       /\ watermarkOptions'.position = watermarkOptions.position
       /\ watermarkOptions'.offsetX = Some(latestCustomPosition.x)
       /\ watermarkOptions'.offsetY = Some(latestCustomPosition.y)
       /\ <<watermarkOptions'.offsetX, watermarkOptions'.offsetY>> =
            IF selectedImage = NoImage
            THEN <<Some(5), Some(5)>>
            ELSE <<Some(AnchorOf(watermarkOptions.position).x),
                   Some(AnchorOf(watermarkOptions.position).y)>>]_vars

\* C28 witness: the store held the custom position (0.2, 0.7); with an image
\* selected the preset northwest was chosen and then Custom, which committed
\* the anchor of northwest.
C28_Witness ==
  /\ lastOp.op = "editCustom"
  /\ isConfigReady
  /\ selectedImage # NoImage
  /\ host.lastUsedOptions.mode = "custom"
  /\ host.lastUsedOptions.offsetX = Some(2)
  /\ host.lastUsedOptions.offsetY = Some(7)
  /\ watermarkOptions.mode = "custom"
  /\ watermarkOptions.position = "northwest"
  /\ watermarkOptions.offsetX = Some(1)
  /\ watermarkOptions.offsetY = Some(1)

\* One list is the beginning of the other.
IsPrefix(a, b) == Len(a) <= Len(b) /\ SubSeq(b, 1, Len(a)) = a

\* The calls of processFiles in flight that a step settled.
Settled == {i \in 1..Len(addCalls) : addCalls' = Without(addCalls, i)}

\* C29: every step leaves the file list as a prefix of the new list; a
\* completed add appends one entry for each path of the call, in the order of
\* the paths, whatever the order the paths resolved in and whether or not a
\* path is in the list already; an add of no paths changes nothing.
C29_AppendOnly ==
  [][/\ IsPrefix(fileList, fileList')
     /\ (lastOp'.op = "processFilesResolved" /\ addCalls' # addCalls) =>
          \E i \in Settled :
            /\ Len(fileList') = Len(fileList) + Len(addCalls[i].paths)
            /\ \A k \in 1..Len(addCalls[i].paths) :
                 fileList'[Len(fileList) + k] =
                   [path |-> addCalls[i].paths[k],
                    name |-> FileInfo(addCalls[i].paths[k]).name,
                    thumbnail |-> FileInfo(addCalls[i].paths[k]).thumbnail]
     /\ (lastOp'.op = "processFiles" /\ events' # events /\ addCalls' = addCalls) =>
          UNCHANGED <<fileList, selectedImage, optionVars, templateVars,
                      exportVars, syncVars, dragVars, dirty>>]_vars

\* C29 witness: two paths were added in one call to a list, and the list ends
\* with their entries in the order of the call.
C29_Witness ==
  /\ lastOp.op = "processFilesResolved"
  /\ Len(fileList) >= 2
  /\ fileList[Len(fileList) - 1].path = "b.png"
  /\ fileList[Len(fileList)].path = "a.jpg"

\* The paths of a call other than the one that failed.
RECURSIVE Except(_, _)
Except(paths, failed) ==
  IF paths = <<>> THEN <<>>
  ELSE IF Head(paths) = failed THEN Except(Tail(paths), failed)
  ELSE <<Head(paths)>> \o Except(Tail(paths), failed)

\* C30: when one path of an add fails, the file list afterwards holds every
\* entry it held before, followed by the entries of the other paths of that
\* call.
C30_FailureKeepsResolved ==
  [][(lastOp'.op = "processFilesRejected" /\ addCalls' # addCalls) =>
       \E i \in Settled :
         /\ IsPrefix(fileList, fileList')
         /\ Paths(SubSeq(fileList', Len(fileList) + 1, Len(fileList'))) =
              Except(addCalls[i].paths, lastOp'.arg)]_vars

\* C31: a change of namingMode leaves prefix, suffix, outputDir and format as
\* they are; a start of an export, which sends trimmed copies of prefix and
\* suffix, leaves the stored export options as they are, untrimmed; a
\* directory dialog that answers with no directory leaves outputDir as it is,
\* and one that answers with a directory changes outputDir only.
C31_ExportOptionsKept ==
  [][/\ (events' # events /\ lastOp'.op = "namingMode") =>
          /\ exportOptions'.namingMode # exportOptions.namingMode
          /\ \A f \in {"prefix", "suffix", "outputDir", "format"} :
               exportOptions'[f] = exportOptions[f]
     /\ (events' # events /\ lastOp'.op \in {"startCalled", "startRefused"}) =>
          exportOptions' = exportOptions
     /\ (events' # events /\ lastOp'.op = "startCalled") =>
          /\ exportCalls' # <<>>
          /\ exportCalls'[Len(exportCalls')].exportOptions.prefix = Trim(exportOptions.prefix)
          /\ exportCalls'[Len(exportCalls')].exportOptions.suffix = Trim(exportOptions.suffix)
     /\ (dirDialog /\ ~dirDialog') =>
          /\ lastOp'.op = "directoryResolved"
          /\ exportOptions' =
               IF lastOp'.arg = "" THEN exportOptions
               ELSE [exportOptions EXCEPT !.outputDir = lastOp'.arg]]_vars

\* C31 witness: a prefix with spaces around it is stored and an export was
\* started, which sent the prefix trimmed; the stored prefix has its spaces.
C31_Witness ==
  /\ lastOp.op = "startCalled"
  /\ exportOptions.prefix = <<" ", "x", " ">>
  /\ exportCalls # <<>>
  /\ exportCalls[Len(exportCalls)].exportOptions.prefix = <<"x">>
  /\ exportStatus.state = "running"

\* The handlers and settlements that write the export status.
ExportStatusWriters ==
  {"startCalled", "startRefused", "progress", "exportResolved", "exportRejected"}

\* C32: a template message is visible only while its timeout is pending; a
\* step that sets a message, also the same message again, leaves the full
\* 3000 ms on the timeout; the message is cleared only by the timeout, when
\* the 3000 ms have passed, and every message is cleared in the end.  The
\* export status changes only in a start of an export, in a progress event
\* and in the settlement of a run, never in a timeout.
C32_MessagesExpire ==
  /\ [](templateMessage # NoMessage <=> messageTimer # Undefined)
  /\ [][/\ (lastOp' # lastOp /\ lastOp'.op \in {"saveInvalid", "loadConfigRejected"}) =>
             /\ templateMessage' # NoMessage
             /\ messageTimer' = Some([remaining |-> 3000])
        /\ (events' # events /\ lastOp'.op = "saveInvalid") =>
             messageTimer' = Some([remaining |-> 3000])
        /\ (templateMessage # NoMessage /\ templateMessage' = NoMessage) =>
             /\ messageTimer[1].remaining = 0
             /\ lastOp'.op = "messageExpired"
        /\ (messageTimer # Undefined /\ messageTimer' # Undefined
              /\ messageTimer'[1].remaining < messageTimer[1].remaining) =>
             /\ templateMessage' = templateMessage
             /\ UNCHANGED <<events, lastOp, exportStatus>>
        /\ (exportStatus' # exportStatus) =>
             /\ lastOp'.op \in ExportStatusWriters
             /\ (events' # events \/ exportCalls' # exportCalls \/ progress' # progress)
       ]_vars
  /\ (templateMessage # NoMessage) ~> (templateMessage = NoMessage)

\* C32 witness: the timeout has cleared a template message while the message
\* of a refused export, set before, is still in the export status.
C32_Witness ==
  /\ lastOp.op = "messageExpired"
  /\ templateMessage = NoMessage
  /\ messageTimer = Undefined
  /\ exportStatus.state = "error"
  /\ exportStatus.message # Undefined

\* C33: the flag applyingTemplateRef set by a load is consumed by the
\* reaction to that load: when the reaction to a direct edit is about to run,
\* the flag is false.
C33_FlagConsumed ==
  (lastOp.op \in DirectEdits /\ "watermarkOptions" \in dirty) => ~applyingTemplateRef

\* The calls of saveTemplate and deleteTemplate in flight that a step settled.
SettledCalls == {i \in 1..Len(templateCalls) : templateCalls' = Without(templateCalls, i)}

\* C34: a delete that succeeds changes appliedTemplateId only when the
\* applied id was the id of the deleted template when the delete was called;
\* when it was another id, or none, appliedTemplateId is as before.
C34_DeleteKeepsOtherApplied ==
  [][(lastOp'.op = "deleteResolved" /\ templateCalls' # templateCalls) =>
       \E i \in SettledCalls :
         /\ templateCalls[i].kind = "delete"
         /\ templateCalls[i].selected = lastOp'.id
         /\ (templateCalls[i].applied # lastOp'.id) =>
              appliedTemplateId' = appliedTemplateId]_vars

\* C34 witness: a delete was called with no template applied, the template
\* was loaded while the call was in flight, and the delete that succeeded
\* left the applied id as it was.
C34_Witness ==
  /\ lastOp.op = "deleteResolved"
  /\ appliedTemplateId # Null
  /\ appliedTemplateId = lastOp.id

\* C35: in every reachable state appliedTemplateId is null or the id of a
\* template of the templates list.
C35_AppliedExists ==
  appliedTemplateId = Null \/ appliedTemplateId \in Ids(templates)

\* C36: in every reachable state selectedTemplateId is null or the id of a
\* template of the templates list.
C36_SelectedExists ==
  selectedTemplateId = Null \/ selectedTemplateId \in Ids(templates)

\* C36 witness: a delete succeeded and the selection went on to a template
\* that remains.
C36_Witness ==
  /\ lastOp.op = "deleteResolved"
  /\ templates # <<>>
  /\ selectedTemplateId # Null
  /\ selectedTemplateId \in Ids(templates)
  /\ lastOp.id \notin Ids(templates)

\* The options the application starts with, lines 141-150, in tenths.
BuiltInOptions ==
  [text |-> "Hello World", size |-> 50, color |-> "#ffffff", opacity |-> 100,
   mode |-> "preset", position |-> "center", offsetX |-> <<5>>, offsetY |-> <<5>>]

\* C37: when the initial getConfigState call has settled and the reaction to
\* it has run, with no user event at all, a timeout of 400 ms is pending with
\* the live options and the applied id; it ends in one updateLastUsedOptions
\* call, and no second call follows without a user event; after a load that
\* failed the call carries the built-in options and a null template id.
C37_LoadSchedulesWrite ==
  /\ [][(events = 0 /\ configCall = "done" /\ "isConfigReady" \in dirty /\ dirty' = {}) =>
          timer' = Some([options |-> watermarkOptions',
                         templateId |-> appliedTemplateId',
                         remaining |-> 400])]_vars
  /\ [](events = 0 => updateCalls <= 1)
  /\ [](events = 0 /\ configCall = "done" /\ dirty = {} /\ updateCalls = 0
         => timer # Undefined)
  /\ [][(events = 0 /\ updateCalls' # updateCalls) =>
          /\ timer[1].remaining = 0
          /\ host'.lastUsedOptions = watermarkOptions
          /\ host'.lastUsedTemplateId = appliedTemplateId
          /\ (lastOp.op = "loadConfigRejected") =>
               /\ host'.lastUsedOptions = BuiltInOptions
               /\ host'.lastUsedTemplateId = Null]_vars
  /\ (events = 0 /\ configCall = "done") ~> (updateCalls = 1 \/ events > 0)

\* C37 witness: the load failed for a store that held other options and a
\* last used template, no user event happened, and the one call has written
\* the built-in options and a null template id to the store.
C37_Witness ==
  /\ lastOp.op = "updateLastUsedOptions"
  /\ events = 0
  /\ updateCalls = 1
  /\ templateMessage.type = "error"
  /\ host.templates # <<>>
  /\ host.lastUsedOptions = BuiltInOptions
  /\ host.lastUsedTemplateId = Null

\* C38: a progress event delivered while the status is Running is applied,
\* whichever run it was sent for: processed and total become those of the
\* event, the state stays Running and the summary is as before.
C38_ProgressOfAnyRun ==
  [][(lastOp'.op = "progress" /\ Cardinality(progress') < Cardinality(progress)
        /\ exportStatus.state = "running") =>
       \E payload \in progress \ progress' :
         /\ exportStatus'.state = "running"
         /\ exportStatus'.total = payload.total
         /\ exportStatus'.processed = payload.processed
         /\ exportStatus'.summary = exportStatus.summary]_vars

\* C38 witness: an event sent for an earlier run, of one file, was delivered
\* while a later run of two files was the only one in flight, and the status
\* shows the total of the earlier run.
C38_Witness ==
  /\ lastOp.op = "progress"
  /\ exportStatus.state = "running"
  /\ Len(exportCalls) = 1
  /\ Len(exportCalls[1].filePaths) = 2
  /\ exportStatus.total = 1

\* C39: when a call of processFiles resolves, whether it is the oldest call
\* in flight or one made later, the entries of its paths are appended to the
\* list as it is at that moment, as one block in the order of the paths; the
\* other calls stay in flight as they are, in their order, so the blocks of
\* calls that overlap come in the order the calls resolve and no entry is
\* dropped or repeated.
C39_OverlappingAdds ==
  [][(lastOp'.op = "processFilesResolved" /\ Len(addCalls') < Len(addCalls)) =>
       \E i \in 1..Len(addCalls) :
         /\ (i = 1) <=> (lastOp'.arg = "oldest")
         /\ addCalls' = SubSeq(addCalls, 1, i - 1) \o SubSeq(addCalls, i + 1, Len(addCalls))
         /\ SubSeq(fileList', 1, Len(fileList)) = fileList
         /\ Paths(SubSeq(fileList', Len(fileList) + 1, Len(fileList'))) = addCalls[i].paths]_vars

\* C39 witness: of two calls in flight the one made later has resolved first;
\* its entry is in the list and the call made first is still in flight.
C39_Witness ==
  /\ lastOp.op = "processFilesResolved"
  /\ lastOp.arg = "later"
  /\ Len(addCalls) = 1
  /\ fileList # <<>>
  /\ Paths(fileList) # addCalls[1].paths

\* C40: once the last outstanding applyWatermark response has arrived with
\* image data, and a request was made for the selected image under the
\* current options, previewImage is the render of the selected image under
\* the current options, in whatever order the responses arrived.
C40_PreviewIsLatest ==
  (/\ lastOp.op = "previewResolved"
   /\ lastOp.arg = "data"
   /\ previewCalls = <<>>
   /\ dirty = {}
   /\ PreviewEffect(selectedImage, watermarkOptions)) =>
    previewImage = PreviewRequest(selectedImage, watermarkOptions)

====
